---- MODULE Spec2Model ----
(***************************************************************************)
(* A model of the NestJS scaffolding generator: the naming helpers         *)
(* (StringUtils), the anchor based mutation of src/app.module.ts           *)
(* (updateAppModule of ModuleCommand, AuthCommand and PrismaStrategy), the *)
(* stand-alone commands and the create-everything workflow (AllCommand).   *)
(*                                                                         *)
(* File contents are TLA+ strings; the JavaScript string methods the code  *)
(* uses (includes, indexOf, lastIndexOf, substring, replace, endsWith,     *)
(* slice) are operators over them, with the 0-based indices of the code.   *)
(***************************************************************************)
EXTENDS Integers, Sequences, FiniteSets, TLC

(***************************************************************************)
(* Bounds of the model.                                                    *)
(***************************************************************************)
\* number of stand-alone commands run one after the other on one project
MaxOps == 2
\* length of the module list handed to the create-everything workflow
MaxModules == 2
\* number of file operations that fail in one run of the workflow
MaxFaults == 1
\* length of the module list of the runs in which file operations fail
MaxFaultModules == 1

Min(S) == CHOOSE x \in S : \A y \in S : x <= y
Max(S) == CHOOSE x \in S : \A y \in S : x >= y

(***************************************************************************)
(* JavaScript string methods.                                              *)
(***************************************************************************)
\* s.substring(a, b)
Substring(s, a, b) == SubSeq(s, a + 1, b)

\* s.substring(a)
SubstringFrom(s, a) == SubSeq(s, a + 1, Len(s))

\* s.charAt(i)
CharAt(s, i) == IF i >= 0 /\ i < Len(s) THEN SubSeq(s, i + 1, i + 1) ELSE ""

\* s.indexOf(p, from): first index >= from where p occurs, else -1
IndexOfFrom(s, p, from) ==
  LET c == {i \in from..(Len(s) - Len(p)) : SubSeq(s, i + 1, i + Len(p)) = p}
  IN  IF c = {} THEN -1 ELSE Min(c)

\* s.indexOf(p)
IndexOf(s, p) == IndexOfFrom(s, p, 0)

\* s.lastIndexOf(p)
LastIndexOf(s, p) ==
  LET c == {i \in 0..(Len(s) - Len(p)) : SubSeq(s, i + 1, i + Len(p)) = p}
  IN  IF c = {} THEN -1 ELSE Max(c)

\* s.includes(p)
Includes(s, p) == IndexOf(s, p) # -1

\* s.replace(p, r) with a string pattern: the first occurrence only
ReplaceFirst(s, p, r) ==
  LET i == IndexOf(s, p)
  IN  IF i = -1 THEN s
      ELSE Substring(s, 0, i) \o r \o SubstringFrom(s, i + Len(p))

\* s.endsWith(p)
EndsWith(s, p) ==
  Len(s) >= Len(p) /\ SubSeq(s, Len(s) - Len(p) + 1, Len(s)) = p

\* s.slice(0, -k)
SliceEnd(s, k) == IF Len(s) >= k THEN SubSeq(s, 1, Len(s) - k) ELSE ""

LowerAlphabet == "abcdefghijklmnopqrstuvwxyz"
UpperAlphabet == "ABCDEFGHIJKLMNOPQRSTUVWXYZ"

\* c.toUpperCase() of one character
ToUpperChar(c) ==
  LET i == IndexOf(LowerAlphabet, c)
  IN  IF c = "" \/ i = -1 THEN c ELSE CharAt(UpperAlphabet, i)

\* c.toLowerCase() of one character
ToLowerChar(c) ==
  LET i == IndexOf(UpperAlphabet, c)
  IN  IF c = "" \/ i = -1 THEN c ELSE CharAt(LowerAlphabet, i)

(***************************************************************************)
(* StringUtils.                                                            *)
(***************************************************************************)
\* the separators of str.split(/[-_\s]/)
IsWordSeparator(c) == c \in {"-", "_", " ", "\n", "\t"}

\* toPascalCase: split on the separators, upper-case the first character of
\* each word, lower-case the rest, join.  atStart tells that position i
\* starts a word.
RECURSIVE PascalFrom(_, _, _)
PascalFrom(str, i, atStart) ==
  IF i >= Len(str) THEN ""
  ELSE LET c == CharAt(str, i)
       IN  IF IsWordSeparator(c) THEN PascalFrom(str, i + 1, TRUE)
           ELSE (IF atStart THEN ToUpperChar(c) ELSE ToLowerChar(c))
                  \o PascalFrom(str, i + 1, FALSE)

toPascalCase(str) == PascalFrom(str, 0, TRUE)

toCamelCase(str) ==
  LET pascal == toPascalCase(str)
  IN  ToLowerChar(CharAt(pascal, 0)) \o SubstringFrom(pascal, 1)

getSingular(str) ==
  IF EndsWith(str, "ies") THEN SliceEnd(str, 3) \o "y"
  ELSE IF EndsWith(str, "s") /\ ~EndsWith(str, "ss") THEN SliceEnd(str, 1)
  ELSE str

\* a plural that appends "s" to a token ending in "ss" as well
getPluralAppending(str) ==
  IF EndsWith(str, "y") THEN SliceEnd(str, 1) \o "ies"
  ELSE IF ~EndsWith(str, "s") \/ EndsWith(str, "ss") THEN str \o "s"
  ELSE str

getPlural(str) ==
  IF EndsWith(str, "y") THEN SliceEnd(str, 1) \o "ies"
  ELSE IF ~EndsWith(str, "s") THEN str \o "s"
  ELSE str

\* str.toLowerCase()
RECURSIVE LowerFrom(_, _)
LowerFrom(str, i) ==
  IF i >= Len(str) THEN ""
  ELSE ToLowerChar(CharAt(str, i)) \o LowerFrom(str, i + 1)

ToLowerCase(str) == LowerFrom(str, 0)

(***************************************************************************)
(* Texts the commands write.  The second element of envFilePath in the     *)
(* template of ProjectCommand is a back-quoted template literal, which a   *)
(* TLA+ string cannot hold; it is left out.  It holds none of the literals *)
(* the patcher searches for.                                               *)
(***************************************************************************)
\* src/app.module.ts as ProjectCommand.createAppFiles writes it
AppModuleTemplate ==
  "import { Module } from '@nestjs/common';\n"
  \o "import { ConfigModule } from '@nestjs/config';\n"
  \o "\n"
  \o "@Module({\n"
  \o "  imports: [\n"
  \o "    ConfigModule.forRoot({\n"
  \o "      isGlobal: true,\n"
  \o "      envFilePath: ['.env'],\n"
  \o "    }),\n"
  \o "  ],\n"
  \o "  controllers: [],\n"
  \o "  providers: [],\n"
  \o "})\n"
  \o "export class AppModule {}\n"

\* an aggregator whose registration list is the canonical empty list, the
\* shape ModuleCommand.createModuleFiles gives every unit's module file
EmptyListAggregator ==
  "import { Module } from '@nestjs/common';\n"
  \o "\n"
  \o "@Module({\n"
  \o "  imports: [],\n"
  \o "  controllers: [],\n"
  \o "  providers: [],\n"
  \o "})\n"
  \o "export class AppModule {}\n"

\* an aggregator with no registration list, the shape of the module file
\* PrismaStrategy.generateConfigFiles writes
NoListAggregator ==
  "import { Module } from '@nestjs/common';\n"
  \o "\n"
  \o "@Module({\n"
  \o "  providers: [],\n"
  \o "  exports: [],\n"
  \o "})\n"
  \o "export class AppModule {}\n"

\* an aggregator with no import statement: a hand-written file in the format
\* of the registration literal alone
NoImportAggregator ==
  "@Module({\n"
  \o "  imports: [],\n"
  \o "})\n"
  \o "export class AppModule {}\n"

\* prisma/schema.prisma as PrismaStrategy.generateConfigFiles writes it; of
\* each model only the opening and the closing line are kept
SchemaTemplate == "// Add your models here\nmodel User {\n}\n"

(***************************************************************************)
(* The aggregator patch: the updater callback of updateAppModule.  The     *)
(* same statements stand in ModuleCommand, in AuthCommand and in           *)
(* PrismaStrategy.generateConfigFiles; only the logging differs.           *)
(***************************************************************************)
\* the anchor of the registration list
ImportsAnchor == "imports: ["

\* the canonical empty registration list
EmptyImportsLiteral == "imports: [],"

\* a patcher that never finds the identifier
AlreadyImportedNever(content, moduleClassName) == FALSE

\* "Check if the module is already imported"
AlreadyImported(content, moduleClassName) == Includes(content, moduleClassName)

\* an insertion that resumes one character too late
AddImportStatementSkipping(content, importStatement) ==
  IF Includes(content, "import {")
  THEN LET lastImportIndex == LastIndexOf(content, "import")
           endOfImportIndex == IndexOfFrom(content, ";", lastImportIndex) + 1
       IN  Substring(content, 0, endOfImportIndex)
             \o "\n" \o importStatement
             \o SubstringFrom(content, endOfImportIndex + 1)
  ELSE importStatement \o "\n" \o content

\* "Add import statement"
AddImportStatement(content, importStatement) ==
  IF Includes(content, "import {")
  THEN LET lastImportIndex == LastIndexOf(content, "import")
           endOfImportIndex == IndexOfFrom(content, ";", lastImportIndex) + 1
       IN  Substring(content, 0, endOfImportIndex)
             \o "\n" \o importStatement
             \o SubstringFrom(content, endOfImportIndex)
  ELSE importStatement \o "\n" \o content

\* a registration that forgets the comma after the new identifier
AddToImportsArrayNoComma(content, moduleClassName) ==
  IF Includes(content, ImportsAnchor)
  THEN ReplaceFirst(content, ImportsAnchor,
                    ImportsAnchor \o "\n    " \o moduleClassName)
  ELSE content

\* "Add to imports array in the @Module decorator"
AddToImportsArray(content, moduleClassName) ==
  IF Includes(content, ImportsAnchor)
  THEN ReplaceFirst(content, ImportsAnchor,
                    ImportsAnchor \o "\n    " \o moduleClassName \o ",")
  ELSE IF Includes(content, EmptyImportsLiteral)
  THEN ReplaceFirst(content, EmptyImportsLiteral,
                    "imports: [" \o moduleClassName \o "],")
  ELSE content

\* the text the updater returns
PatchAppModule(content, importStatement, moduleClassName) ==
  IF AlreadyImported(content, moduleClassName) THEN content
  ELSE AddToImportsArray(AddImportStatement(content, importStatement),
                         moduleClassName)

\* log records
LogRec(level, msg) == [level |-> level, msg |-> msg]

AnchorNotFoundMsg ==
  "Could not find imports array in AppModule. Please add it manually."

\* an updater that stays silent when the anchor is missing
PatchWarningsSilent(content, importStatement, moduleClassName) ==
  IF AlreadyImported(content, moduleClassName)
  THEN << LogRec("warning",
                 moduleClassName \o " is already imported in AppModule.") >>
  ELSE << >>

\* what the updater of ModuleCommand and AuthCommand logs
PatchWarnings(content, importStatement, moduleClassName) ==
  IF AlreadyImported(content, moduleClassName)
  THEN << LogRec("warning",
                 moduleClassName \o " is already imported in AppModule.") >>
  ELSE LET updatedContent == AddImportStatement(content, importStatement)
       IN  IF Includes(updatedContent, ImportsAnchor)
              \/ Includes(updatedContent, EmptyImportsLiteral)
           THEN << >>
           ELSE << LogRec("warning", AnchorNotFoundMsg) >>

\* the registration identifier and the import line of a unit
ModuleClassName(moduleName) == toPascalCase(getSingular(moduleName)) \o "Module"

ModuleImportStatement(moduleName) ==
  "import { " \o ModuleClassName(moduleName) \o " } from './"
    \o moduleName \o "/" \o moduleName \o ".module';"

AuthImportStatement == "import { AuthModule } from './auth/auth.module';"

PrismaImportStatement == "import { PrismaModule } from './prisma/prisma.module';"

(***************************************************************************)
(* State.                                                                  *)
(***************************************************************************)
VARIABLES
  fs,            \* paths that exist, relative to the project directory "."
  appModule,     \* content of src/app.module.ts ("" while it does not exist)
  prismaSchema,  \* content of prisma/schema.prisma ("" while it does not exist)
  deps,          \* names under dependencies/devDependencies of package.json
  log,           \* what the commands logged, in order
  last,          \* the aggregator patch of the last command: text before,
                 \* import line, identifier, and whether the updater ran
  created,       \* names of the units whose files ModuleCommand wrote, in order
  ops,           \* number of stand-alone commands run so far
  pc,            \* position of AllCommand.execute ("cli": not running)
  details,       \* projectDetails of AllCommand.execute
  modules,       \* the array projectDetails.modules (unshift mutates it)
  idx,           \* index of the for-of loop over modulesToCreate
  trace,         \* steps AllCommand.execute has finished, in order
  budget,        \* number of file operations that may still fail in this run
  input,         \* argument of the function under study ("" when none)
  output         \* what the function returned for it ("" before the call)

vars == << fs, appModule, prismaSchema, deps, log, last, created, ops,
           pc, details, modules, idx, trace, budget, input, output >>

projVars == << fs, appModule, prismaSchema, deps, log, last, created >>

allVars == << pc, details, modules, idx, trace, budget >>

fnVars == << input, output >>

\* at: the length of the log when the command started
NoPatch ==
  [op |-> "none", ran |-> FALSE, pre |-> "", I |-> "", R |-> "", at |-> 0]

PatchRec(op, ran, pre, I, R) ==
  [op |-> op, ran |-> ran, pre |-> pre, I |-> I, R |-> R, at |-> Len(log)]

(***************************************************************************)
(* File system helpers (FileUtils).                                        *)
(***************************************************************************)
AppModulePath == "src/app.module.ts"

Exists(files, path) == path \in files

StartsWith(s, p) == Len(s) >= Len(p) /\ SubSeq(s, 1, Len(p)) = p

\* FileUtils.remove: the path and everything below it
RemoveTree(files, path) ==
  IF path = "." THEN {}
  ELSE {f \in files : f # path /\ ~StartsWith(f, path \o "/")}

\* a test that takes every directory for a project
isNestJSProjectAnywhere(files) == TRUE

isNestJSProject(files) == Exists(files, "nest-cli.json")

NotNestMsg == "Error: This command should be executed inside a NestJS project."

\* a confirmOverwrite that lets the command go on whatever the answer
confirmOverwriteAlways(files, path, overwrite) == TRUE

\* BaseCommand.confirmOverwrite: TRUE when the command may go on
confirmOverwrite(files, path, overwrite) == ~Exists(files, path) \/ overwrite

\* the files left after confirmOverwrite returned TRUE
AfterConfirm(files, path) ==
  IF Exists(files, path) THEN RemoveTree(files, path) ELSE files

\* a question of inquirer.prompt with the answer given
PromptRec(message, answer) == LogRec("prompt", message \o " " \o answer)

\* what confirmOverwrite asks: nothing when the path does not exist
confirmOverwriteLog(files, path, overwrite) ==
  IF Exists(files, path)
  THEN << PromptRec(path \o " already exists. Do you want to overwrite it?",
                    IF overwrite THEN "Yes" ELSE "No") >>
  ELSE << >>

(***************************************************************************)
(* ProjectCommand.                                                         *)
(***************************************************************************)
EnvFiles == {".env", ".env.example", ".env.development", ".env.production",
             ".env.test"}

ProjectFiles ==
  {".", "src", "src/main.ts", AppModulePath, "src/config",
   "src/config/env.config.ts", "src/common", "package.json", "tsconfig.json",
   "tsconfig.build.json", "nest-cli.json", ".gitignore", "README.md", "test"}

BaseDeps == {"@nestjs/common", "@nestjs/config", "@nestjs/core"}

\* what console.error of FileUtils and of EnvironmentUtils prints; the text of
\* the error of the file system that follows the colon is left out
CreateDirectoryErrorMsg == "Error creating directory"

UpdateFileErrorMsg == "Error updating file"

EnvGeneratedMsg == "Environment files generated successfully!"

EnvErrorMsg == "Error generating environment files"

\* EnvironmentUtils.generateEnvironmentFiles: the files it leaves and what it
\* prints; the catch keeps a failed write inside the function
generateEnvironmentFiles(files, io) ==
  IF io = "env" THEN files ELSE files \cup EnvFiles

generateEnvironmentLog(io) ==
  IF io = "env" THEN << LogRec("error", EnvErrorMsg) >>
  ELSE << LogRec("plain", EnvGeneratedMsg) >>

\* the file operations of ProjectCommand.execute that may fail: the first
\* write of the skeleton ("write") and a write of the environment files ("env")
ProjectFaultPoints(overwrite) ==
  IF confirmOverwrite(fs, ".", overwrite) THEN {"none", "write", "env"}
  ELSE {"none"}

\* ProjectCommand.execute leaves by an exception
ProjectThrows(overwrite, io) ==
  confirmOverwrite(fs, ".", overwrite) /\ io = "write"

\* ProjectCommand.execute({name}); overwrite is the answer to the prompt of
\* confirmOverwrite, asked only when the target directory exists; io is the
\* file operation that fails, catchLog what the caller's catch logs
ProjectCommandExecute(overwrite, io, catchLog) ==
  IF ~confirmOverwrite(fs, ".", overwrite)
  THEN /\ log' = log \o confirmOverwriteLog(fs, ".", overwrite)
                  \o << LogRec("plain", "Operation cancelled.") >>
       /\ last' = NoPatch
       /\ UNCHANGED << fs, appModule, prismaSchema, deps, created >>
  ELSE IF io = "write"
  THEN /\ fs' = AfterConfirm(fs, ".")
       /\ appModule' = ""
       /\ prismaSchema' = ""
       /\ deps' = {}
       /\ log' = log \o confirmOverwriteLog(fs, ".", overwrite)
                  \o << LogRec("error", CreateDirectoryErrorMsg) >> \o catchLog
       /\ last' = NoPatch
       /\ UNCHANGED created
  ELSE /\ fs' = generateEnvironmentFiles(ProjectFiles, io)
       /\ appModule' = AppModuleTemplate
       /\ prismaSchema' = ""
       /\ deps' = BaseDeps
       /\ log' = log \o confirmOverwriteLog(fs, ".", overwrite)
                     \o generateEnvironmentLog(io)
                     \o << LogRec("success", "Project created successfully!") >>
       /\ last' = NoPatch
       /\ UNCHANGED created

(***************************************************************************)
(* ModuleCommand.                                                          *)
(***************************************************************************)
ModuleFiles(moduleName, withCrud) ==
  LET moduleDir == "src/" \o moduleName
      singularName == getSingular(moduleName)
  IN  {moduleDir, moduleDir \o "/dto", moduleDir \o "/entities",
       moduleDir \o "/controllers", moduleDir \o "/services",
       moduleDir \o "/" \o moduleName \o ".module.ts",
       moduleDir \o "/controllers/" \o moduleName \o ".controller.ts",
       moduleDir \o "/services/" \o moduleName \o ".service.ts",
       moduleDir \o "/entities/" \o singularName \o ".entity.ts"}
      \cup (IF withCrud
            THEN {moduleDir \o "/dto/create-" \o singularName \o ".dto.ts",
                  moduleDir \o "/dto/update-" \o singularName \o ".dto.ts"}
            ELSE {})

PrismaServicePath == "src/prisma/prisma.service.ts"

SchemaPath == "prisma/schema.prisma"

\* ModuleCommand.updatePrismaSchema: the new content of the schema
updatePrismaSchema(files, schema, moduleName) ==
  LET className == toPascalCase(getSingular(moduleName))
  IN  IF ~Exists(files, SchemaPath) THEN schema
      ELSE IF Includes(schema, "model " \o className) THEN schema
      ELSE schema \o "\n\nmodel " \o className \o " {\n}\n"

updatePrismaSchemaLog(files, schema, moduleName) ==
  LET className == toPascalCase(getSingular(moduleName))
  IN  IF ~Exists(files, SchemaPath)
      THEN << LogRec("warning",
                "Warning: schema.prisma not found. Could not update schema.") >>
      ELSE IF Includes(schema, "model " \o className)
      THEN << LogRec("warning", "Model " \o className
                                  \o " already exists in Prisma schema.") >>
      ELSE << >>

AppModuleMissingMsg ==
  "Warning: app.module.ts not found. Could not update app module."

UserExistsMsg == "Error: A user/users module already exists."

\* ModuleCommand.execute gets past its three early returns
ModuleProceeds(name, overwrite) ==
  LET moduleName == getPlural(name)
  IN  /\ isNestJSProject(fs)
      /\ ~(/\ ToLowerCase(moduleName) \in {"users", "user"}
           /\ (Exists(fs, "src/user") \/ Exists(fs, "src/users")))
      /\ confirmOverwrite(fs, "src/" \o moduleName, overwrite)

\* the file operations of ModuleCommand.execute that may fail: the first write
\* ("write"), the update of app.module.ts ("update"), the update of
\* schema.prisma ("schema")
ModuleFaultPoints(name, overwrite) ==
  LET fs1 == AfterConfirm(fs, "src/" \o getPlural(name))
  IN  IF ~ModuleProceeds(name, overwrite) THEN {"none"}
      ELSE {"none", "write"}
           \cup (IF Exists(fs1, AppModulePath) THEN {"update"} ELSE {})
           \cup (IF Exists(fs1, PrismaServicePath) /\ Exists(fs1, SchemaPath)
                 THEN {"schema"} ELSE {})

\* ModuleCommand.execute leaves by an exception
ModuleThrows(name, overwrite, io) ==
  ModuleProceeds(name, overwrite) /\ io = "write"

\* ModuleCommand.execute({name, crud}); overwrite answers confirmOverwrite, io
\* is the file operation that fails, catchLog what the caller's catch logs
ModuleCommandExecute(name, withCrud, overwrite, io, catchLog) ==
  LET moduleName == getPlural(name)
      normalizedName == ToLowerCase(moduleName)
      moduleDir == "src/" \o moduleName
      I == ModuleImportStatement(moduleName)
      R == ModuleClassName(moduleName)
  IN
  IF ~isNestJSProject(fs)
  THEN /\ log' = Append(log, LogRec("error", NotNestMsg))
       /\ last' = PatchRec("module", FALSE, appModule, I, R)
       /\ UNCHANGED << fs, appModule, prismaSchema, deps, created >>
  ELSE IF /\ normalizedName \in {"users", "user"}
          /\ (Exists(fs, "src/user") \/ Exists(fs, "src/users"))
  THEN /\ log' = Append(log, LogRec("error", UserExistsMsg))
       /\ last' = PatchRec("module", FALSE, appModule, I, R)
       /\ UNCHANGED << fs, appModule, prismaSchema, deps, created >>
  ELSE IF ~confirmOverwrite(fs, moduleDir, overwrite)
  THEN /\ log' = log \o confirmOverwriteLog(fs, moduleDir, overwrite)
                  \o << LogRec("plain", "Operation cancelled.") >>
       /\ last' = PatchRec("module", FALSE, appModule, I, R)
       /\ UNCHANGED << fs, appModule, prismaSchema, deps, created >>
  ELSE IF io = "write"
  THEN /\ fs' = AfterConfirm(fs, moduleDir)
       /\ log' = log \o confirmOverwriteLog(fs, moduleDir, overwrite)
                  \o << LogRec("error", CreateDirectoryErrorMsg) >> \o catchLog
       /\ last' = PatchRec("module", FALSE, appModule, I, R)
       /\ UNCHANGED << appModule, prismaSchema, deps, created >>
  ELSE LET fs1 == AfterConfirm(fs, moduleDir) \cup ModuleFiles(moduleName, withCrud)
           hasApp == Exists(fs1, AppModulePath)
           databaseStrategy == Exists(fs1, PrismaServicePath)
           patched == hasApp /\ io # "update"
           patchLog == IF ~hasApp
                       THEN << LogRec("warning", AppModuleMissingMsg) >>
                       ELSE IF io = "update"
                       THEN << LogRec("error", UpdateFileErrorMsg),
                               LogRec("error", "Error updating app.module.ts") >>
                       ELSE PatchWarnings(appModule, I, R)
           schemaLog == IF ~databaseStrategy THEN << >>
                        ELSE IF io = "schema"
                        THEN << LogRec("error", UpdateFileErrorMsg),
                                LogRec("error", "Error updating schema.prisma") >>
                        ELSE updatePrismaSchemaLog(fs1, prismaSchema, moduleName)
       IN  /\ fs' = fs1
           /\ appModule' = IF patched THEN PatchAppModule(appModule, I, R)
                           ELSE appModule
           /\ prismaSchema' = IF databaseStrategy /\ io # "schema"
                              THEN updatePrismaSchema(fs1, prismaSchema, moduleName)
                              ELSE prismaSchema
           /\ log' = log \o confirmOverwriteLog(fs, moduleDir, overwrite)
                       \o patchLog \o schemaLog
                       \o << LogRec("success", "Module " \o moduleName
                                                 \o " created successfully!") >>
           /\ last' = PatchRec("module", patched, appModule, I, R)
           /\ created' = Append(created, moduleName)
           /\ UNCHANGED deps

(***************************************************************************)
(* AuthCommand.                                                            *)
(***************************************************************************)
AuthFiles(useJwt) ==
  {"src/auth", "src/auth/dto", "src/auth/strategies", "src/auth/guards",
   "src/auth/auth.module.ts", "src/auth/controllers",
   "src/auth/controllers/auth.controller.ts", "src/auth/services",
   "src/auth/services/auth.service.ts", "src/auth/dto/register.dto.ts",
   "src/auth/dto/login.dto.ts"}
  \cup (IF useJwt
        THEN {"src/auth/strategies/jwt.strategy.ts",
              "src/auth/guards/jwt-auth.guard.ts", "src/common/decorators",
              "src/common/decorators/current-user.decorator.ts"}
        ELSE {})

\* AuthCommand.updatePackageJson
AuthDeps(useJwt) ==
  {"@nestjs/passport", "passport", "bcrypt", "@types/passport-jwt",
   "@types/bcrypt"}
  \cup (IF useJwt THEN {"@nestjs/jwt", "passport-jwt"} ELSE {})

PackageJsonMissingMsg ==
  "Warning: package.json not found. Could not update dependencies."

PackageJsonErrorMsg == "Error updating package.json"

\* AuthCommand.execute gets past its two early returns
AuthProceeds(overwrite) ==
  isNestJSProject(fs) /\ confirmOverwrite(fs, "src/auth", overwrite)

\* the file operations of AuthCommand.execute that may fail: the first write
\* ("write"), the update of app.module.ts ("update"), the update of
\* package.json ("manifest")
AuthFaultPoints(overwrite) ==
  LET fs1 == AfterConfirm(fs, "src/auth")
  IN  IF ~AuthProceeds(overwrite) THEN {"none"}
      ELSE {"none", "write"}
           \cup (IF Exists(fs1, AppModulePath) THEN {"update"} ELSE {})
           \cup (IF Exists(fs1, "package.json") THEN {"manifest"} ELSE {})

\* AuthCommand.execute leaves by an exception
AuthThrows(overwrite, io) == AuthProceeds(overwrite) /\ io = "write"

\* the question of AuthCommand.execute when options.jwt is undefined.  jwt is
\* given when useJwt is TRUE (the --jwt flag, jwt: true of AllCommand);
\* useJwt FALSE is the answer No to the question
jwtLog(useJwt) ==
  IF useJwt THEN << >>
  ELSE << PromptRec("Do you want to use JWT authentication?", "No") >>

\* AuthCommand.execute({jwt}); overwrite answers confirmOverwrite, io is the
\* file operation that fails, catchLog what the caller's catch logs
AuthCommandExecute(useJwt, overwrite, io, catchLog) ==
  LET I == AuthImportStatement
      R == "AuthModule"
      asked == jwtLog(useJwt) \o confirmOverwriteLog(fs, "src/auth", overwrite)
  IN
  IF ~isNestJSProject(fs)
  THEN /\ log' = Append(log, LogRec("error", NotNestMsg))
       /\ last' = PatchRec("auth", FALSE, appModule, I, R)
       /\ UNCHANGED << fs, appModule, prismaSchema, deps, created >>
  ELSE IF ~confirmOverwrite(fs, "src/auth", overwrite)
  THEN /\ log' = log \o asked \o << LogRec("plain", "Operation cancelled.") >>
       /\ last' = PatchRec("auth", FALSE, appModule, I, R)
       /\ UNCHANGED << fs, appModule, prismaSchema, deps, created >>
  ELSE IF io = "write"
  THEN /\ fs' = AfterConfirm(fs, "src/auth")
       /\ log' = log \o asked \o << LogRec("error", CreateDirectoryErrorMsg) >>
                   \o catchLog
       /\ last' = PatchRec("auth", FALSE, appModule, I, R)
       /\ UNCHANGED << appModule, prismaSchema, deps, created >>
  ELSE LET fs1 == AfterConfirm(fs, "src/auth") \cup AuthFiles(useJwt)
           hasApp == Exists(fs1, AppModulePath)
           hasPkg == Exists(fs1, "package.json")
           patched == hasApp /\ io # "update"
           patchLog == IF ~hasApp
                       THEN << LogRec("warning", AppModuleMissingMsg) >>
                       ELSE IF io = "update"
                       THEN << LogRec("error", UpdateFileErrorMsg),
                               LogRec("error", "Error updating app.module.ts") >>
                       ELSE PatchWarnings(appModule, I, R)
           pkgLog == IF ~hasPkg
                     THEN << LogRec("warning", PackageJsonMissingMsg) >>
                     ELSE IF io = "manifest"
                     THEN << LogRec("error", PackageJsonErrorMsg) >>
                     ELSE << >>
       IN  /\ fs' = fs1
           /\ appModule' = IF patched THEN PatchAppModule(appModule, I, R)
                           ELSE appModule
           /\ deps' = IF hasPkg /\ io # "manifest"
                      THEN deps \cup AuthDeps(useJwt) ELSE deps
           /\ log' = log \o asked \o patchLog \o pkgLog
                       \o << LogRec("success",
                               "Authentication module created successfully!") >>
           /\ last' = PatchRec("auth", patched, appModule, I, R)
           /\ UNCHANGED << prismaSchema, created >>

(***************************************************************************)
(* DatabaseStrategyFactory, PrismaStrategy and DatabaseCommand.            *)
(***************************************************************************)
\* DatabaseStrategyFactory.getStrategy: the strategy, or "throw"
getStrategy(name) == IF ToLowerCase(name) = "prisma" THEN "Prisma" ELSE "throw"

\* the message of the Error getStrategy throws
getStrategyError(name) == "Unsupported database strategy: " \o name

\* ArchitectureFactory.getArchitecture: the architecture, or "throw"
getArchitecture(name) ==
  IF ToLowerCase(name) \in {"nest", "nestjs"} THEN "NestJS" ELSE "throw"

\* the message of the Error getArchitecture throws
getArchitectureError(name) == "Unsupported architecture: " \o name

\* the only choice promptForStrategy offers
PromptedStrategy == getStrategy("prisma")

PrismaFiles ==
  {"prisma", SchemaPath, "src/prisma", PrismaServicePath,
   "src/prisma/prisma.module.ts", "prisma/seed.ts"}

PrismaDeps == {"@prisma/client", "prisma"}

\* the file operations of DatabaseCommand.execute that may fail: the first
\* write of generateConfigFiles ("write"), its update of app.module.ts
\* ("update"), the update of package.json ("manifest")
DatabaseFaultPoints ==
  IF ~isNestJSProject(fs) THEN {"none"}
  ELSE {"none", "write"}
       \cup (IF Exists(fs, AppModulePath) THEN {"update"} ELSE {})
       \cup (IF Exists(fs, "package.json") THEN {"manifest"} ELSE {})

\* DatabaseCommand.execute leaves by an exception: generateConfigFiles has no
\* catch around its writes and its updateFile
DatabaseThrows(io) == isNestJSProject(fs) /\ io \in {"write", "update"}

\* DatabaseCommand.execute({type}); type "" stands for no type given, io is
\* the file operation that fails, catchLog what the caller's catch logs
DatabaseCommandExecute(dbType, io, catchLog) ==
  LET I == PrismaImportStatement
      R == "PrismaModule"
      first == IF dbType = "" THEN "none" ELSE getStrategy(dbType)
      errLog == (IF first = "throw"
                 THEN << LogRec("error", "Error: " \o getStrategyError(dbType)) >>
                 ELSE << >>)
                \o (IF first = "Prisma" THEN << >>
                    ELSE << PromptRec("Select a database integration:",
                                      "Prisma - Modern TypeScript ORM") >>)
      databaseStrategy == IF first = "Prisma" THEN first ELSE PromptedStrategy
  IN
  IF ~isNestJSProject(fs)
  THEN /\ log' = Append(log, LogRec("error", NotNestMsg))
       /\ last' = PatchRec("db", FALSE, appModule, I, R)
       /\ UNCHANGED << fs, appModule, prismaSchema, deps, created >>
  ELSE IF io = "write"
  THEN /\ log' = log \o errLog \o << LogRec("error", CreateDirectoryErrorMsg) >>
                     \o catchLog
       /\ last' = PatchRec("db", FALSE, appModule, I, R)
       /\ UNCHANGED << fs, appModule, prismaSchema, deps, created >>
  ELSE IF io = "update"
  THEN /\ fs' = fs \cup PrismaFiles
       /\ prismaSchema' = SchemaTemplate
       /\ log' = log \o errLog \o << LogRec("error", UpdateFileErrorMsg) >>
                     \o catchLog
       /\ last' = PatchRec("db", FALSE, appModule, I, R)
       /\ UNCHANGED << appModule, deps, created >>
  ELSE LET fs1 == fs \cup PrismaFiles
           hasApp == Exists(fs1, AppModulePath)
           hasPkg == Exists(fs1, "package.json")
           patchLog == IF hasApp /\ AlreadyImported(appModule, R)
                       THEN << LogRec("plain",
                                 "PrismaModule is already imported in AppModule.") >>
                       ELSE << >>
           pkgLog == IF ~hasPkg
                     THEN << LogRec("warning", PackageJsonMissingMsg) >>
                     ELSE IF io = "manifest"
                     THEN << LogRec("error", PackageJsonErrorMsg) >>
                     ELSE << >>
       IN  /\ fs' = fs1
           /\ prismaSchema' = SchemaTemplate
           /\ appModule' = IF hasApp THEN PatchAppModule(appModule, I, R)
                           ELSE appModule
           /\ deps' = IF hasPkg /\ io # "manifest"
                      THEN deps \cup PrismaDeps ELSE deps
           /\ log' = log \o errLog \o patchLog \o pkgLog
                       \o << LogRec("success", databaseStrategy
                               \o " database integration added successfully!") >>
           /\ last' = PatchRec("db", hasApp, appModule, I, R)
           /\ UNCHANGED created

(***************************************************************************)
(* The stand-alone commands (module, auth, db of index.ts) run one after   *)
(* the other inside one project: specification SpecCli.  Here every file   *)
(* operation succeeds; failing ones are part of specification Spec.        *)
(***************************************************************************)
\* unit names given to the module command
CliModuleNames == {"user", "post", "super-user", "auth"}

\* aggregator files the commands may find in the project
AggregatorSamples ==
  {AppModuleTemplate, EmptyListAggregator, NoListAggregator, NoImportAggregator}

\* --type values given to the db command
DbTypes == {"prisma", "unknown-backend"}

NoDetails == [auth |-> FALSE, database |-> "", requested |-> << >>]

InitCli ==
  /\ \/ /\ appModule \in AggregatorSamples
        /\ fs = ProjectFiles \cup EnvFiles
     \/ /\ appModule = ""
        /\ fs = (ProjectFiles \cup EnvFiles) \ {AppModulePath}
  /\ prismaSchema = ""
  /\ deps = BaseDeps
  /\ log = << >>
  /\ last = NoPatch
  /\ created = << >>
  /\ ops = 0
  /\ pc = "cli"
  /\ details = NoDetails
  /\ modules = << >>
  /\ idx = 0
  /\ trace = << >>
  /\ budget = 0
  /\ input = ""
  /\ output = ""

RunModule ==
  /\ pc = "cli"
  /\ ops < MaxOps
  /\ \E name \in CliModuleNames, withCrud \in BOOLEAN, overwrite \in BOOLEAN :
       ModuleCommandExecute(name, withCrud, overwrite, "none", << >>)
  /\ ops' = ops + 1
  /\ UNCHANGED << allVars, fnVars >>

RunAuth ==
  /\ pc = "cli"
  /\ ops < MaxOps
  /\ \E useJwt \in BOOLEAN, overwrite \in BOOLEAN :
       AuthCommandExecute(useJwt, overwrite, "none", << >>)
  /\ ops' = ops + 1
  /\ UNCHANGED << allVars, fnVars >>

RunDatabase ==
  /\ pc = "cli"
  /\ ops < MaxOps
  /\ \E dbType \in DbTypes : DatabaseCommandExecute(dbType, "none", << >>)
  /\ ops' = ops + 1
  /\ UNCHANGED << allVars, fnVars >>

NextCli == RunModule \/ RunAuth \/ RunDatabase

SpecCli == InitCli /\ [][NextCli]_vars

(***************************************************************************)
(* AllCommand.execute, the create-everything workflow: specification Spec. *)
(* One action per awaited command and per blocking process call.  A        *)
(* process call that fails throws; the catch of execute logs the error and *)
(* the workflow ends ("failed").  In Spec the file system is reliable and  *)
(* only process calls fail; in SpecFaults, the same steps on fewer inputs, *)
(* up to MaxFaults file operations fail as well.                           *)
(***************************************************************************)
\* unit names listed in the modules option
AllModuleNames == {"user", "users", "post", "super-user"}

\* values of the db option ("": no database)
AllDatabases == {"", "prisma", "PRISMA", "unknown-backend"}

\* sequences over S of length at most n
RECURSIVE SeqsUpTo(_, _)
SeqsUpTo(S, n) ==
  IF n = 0 THEN {<< >>}
  ELSE LET shorter == SeqsUpTo(S, n - 1)
       IN  shorter \cup {Append(q, x) : q \in shorter, x \in S}

\* the target directory before the run: absent, a directory of something
\* else, or a project skeleton an earlier run of ProjectCommand left
TargetStates ==
  {[files |-> {}, app |-> "", dependencies |-> {}],
   [files |-> {".", "notes.txt"}, app |-> "", dependencies |-> {}],
   [files |-> ProjectFiles \cup EnvFiles, app |-> AppModuleTemplate,
    dependencies |-> BaseDeps]}

Init ==
  /\ \E t \in TargetStates :
       /\ fs = t.files
       /\ appModule = t.app
       /\ deps = t.dependencies
  /\ prismaSchema = ""
  /\ log = << >>
  /\ last = NoPatch
  /\ created = << >>
  /\ ops = 0
  /\ pc = "project"
  /\ \E a \in BOOLEAN, d \in AllDatabases, m \in SeqsUpTo(AllModuleNames, MaxModules) :
       /\ details = [auth |-> a, database |-> d, requested |-> m]
       /\ modules = m
  /\ idx = 0
  /\ trace = << >>
  /\ budget = 0
  /\ input = ""
  /\ output = ""

Contains(seq, x) == \E i \in 1..Len(seq) : seq[i] = x

\* array.filter(m => m !== "user" && m !== "users")
RECURSIVE FilterUser(_)
FilterUser(seq) ==
  IF seq = << >> THEN << >>
  ELSE IF Head(seq) \in {"user", "users"} THEN FilterUser(Tail(seq))
  ELSE << Head(seq) >> \o FilterUser(Tail(seq))

\* Step 5, "Filter out user/users modules if auth is enabled": the array the
\* loop runs over.  filter returns a new array, and it is that new array
\* "user" is unshifted onto; modulesToCreate itself stays as it was.
modulesToCreate(mods, auth) ==
  IF ~auth THEN mods
  ELSE IF Contains(mods, "user") \/ Contains(mods, "users")
  THEN LET discarded == << "user" >> \o FilterUser(mods)
       IN  mods
  ELSE << "user" >> \o mods

SkipUserMsg ==
  "Skipping 'user' module since it's already created by the authentication module."

\* where execute goes after each step
AfterModules(d) == IF d.database = "prisma" THEN "generate" ELSE "finish"

AfterAuth(d, mods) == IF Len(mods) > 0 THEN "prepare" ELSE AfterModules(d)

AfterDatabase(d, mods) == IF d.auth THEN "auth" ELSE AfterAuth(d, mods)

\* a workflow that adds auth before it looks at the database option
AfterInstallAuthFirst(d, mods) ==
  IF d.auth THEN "auth"
  ELSE IF d.database # "" THEN "database"
  ELSE AfterAuth(d, mods)

AfterInstall(d, mods) ==
  IF d.database # "" THEN "database" ELSE AfterDatabase(d, mods)

\* a runCommand whose catch logs the failure and does not throw it again
runCommandSwallowing(command, ok, step, next) ==
  /\ pc' = next
  /\ trace' = Append(trace, step)
  /\ log' = IF ok THEN log
            ELSE Append(log, LogRec("error", "Command failed: " \o command))

\* this.runCommand(command): ok is what the process returns
runCommand(command, ok, step, next) ==
  IF ok
  THEN /\ pc' = next
       /\ trace' = Append(trace, step)
       /\ UNCHANGED log
  ELSE /\ pc' = "failed"
       /\ trace' = Append(trace, "failed")
       /\ log' = log \o << LogRec("error", "Command failed: " \o command),
                           LogRec("error", "Error creating project") >>

\* what the catch of AllCommand.execute logs
CatchLog == << LogRec("error", "Error creating project") >>

\* a file operation fails only while the budget of the run allows it
MayFail(io) == io = "none" \/ budget > 0

BudgetAfter(io) == IF io = "none" THEN budget ELSE budget - 1

\* Step 1: ProjectCommand.execute and process.chdir
CreateProject ==
  /\ pc = "project"
  /\ \E overwrite \in BOOLEAN : \E io \in ProjectFaultPoints(overwrite) :
       /\ MayFail(io)
       /\ ProjectCommandExecute(overwrite, io, CatchLog)
       /\ pc' = IF ProjectThrows(overwrite, io) THEN "failed" ELSE "env"
       /\ trace' = Append(trace, IF ProjectThrows(overwrite, io)
                                 THEN "failed" ELSE "project")
       /\ budget' = BudgetAfter(io)
  /\ UNCHANGED << ops, details, modules, idx, fnVars >>

\* EnvironmentUtils.generateEnvironmentFiles(projectDir)
GenerateEnvironment ==
  /\ pc = "env"
  /\ \E io \in {"none", "env"} :
       /\ MayFail(io)
       /\ fs' = generateEnvironmentFiles(fs, io)
       /\ log' = log \o generateEnvironmentLog(io)
       /\ budget' = BudgetAfter(io)
  /\ pc' = "install"
  /\ trace' = Append(trace, "env")
  /\ UNCHANGED << appModule, prismaSchema, deps, last, created, ops, details,
                  modules, idx, fnVars >>

\* Step 2: npm install
InstallDependencies ==
  /\ pc = "install"
  /\ \E ok \in BOOLEAN :
       runCommand("npm install", ok, "install", AfterInstall(details, modules))
  /\ UNCHANGED << fs, appModule, prismaSchema, deps, last, created, ops,
                  details, modules, idx, budget, fnVars >>

\* Step 3: DatabaseCommand.execute({type})
AddDatabase ==
  /\ pc = "database"
  /\ \E io \in DatabaseFaultPoints :
       /\ MayFail(io)
       /\ DatabaseCommandExecute(details.database, io, CatchLog)
       /\ pc' = IF DatabaseThrows(io) THEN "failed" ELSE "database-install"
       /\ trace' = Append(trace, IF DatabaseThrows(io) THEN "failed" ELSE "database")
       /\ budget' = BudgetAfter(io)
  /\ UNCHANGED << ops, details, modules, idx, fnVars >>

InstallDatabaseDependencies ==
  /\ pc = "database-install"
  /\ \E ok \in BOOLEAN :
       runCommand("npm install", ok, "database-install",
                  AfterDatabase(details, modules))
  /\ UNCHANGED << fs, appModule, prismaSchema, deps, last, created, ops,
                  details, modules, idx, budget, fnVars >>

\* Step 4: AuthCommand.execute({jwt: true})
AddAuth ==
  /\ pc = "auth"
  /\ \E overwrite \in BOOLEAN : \E io \in AuthFaultPoints(overwrite) :
       /\ MayFail(io)
       /\ AuthCommandExecute(TRUE, overwrite, io, CatchLog)
       /\ pc' = IF AuthThrows(overwrite, io) THEN "failed" ELSE "auth-install"
       /\ trace' = Append(trace, IF AuthThrows(overwrite, io) THEN "failed" ELSE "auth")
       /\ budget' = BudgetAfter(io)
  /\ UNCHANGED << ops, details, modules, idx, fnVars >>

InstallAuthDependencies ==
  /\ pc = "auth-install"
  /\ \E ok \in BOOLEAN :
       runCommand("npm install", ok, "auth-install", AfterAuth(details, modules))
  /\ UNCHANGED << fs, appModule, prismaSchema, deps, last, created, ops,
                  details, modules, idx, budget, fnVars >>

\* Step 5, before the loop
PrepareModules ==
  /\ pc = "prepare"
  /\ modules' = modulesToCreate(modules, details.auth)
  /\ log' = IF details.auth /\ (Contains(modules, "user") \/ Contains(modules, "users"))
            THEN Append(log, LogRec("warning", SkipUserMsg))
            ELSE log
  /\ idx' = 1
  /\ pc' = "module"
  /\ trace' = Append(trace, "prepare")
  /\ UNCHANGED << fs, appModule, prismaSchema, deps, last, created, ops, details,
                  budget, fnVars >>

\* Step 5, one turn of the loop: ModuleCommand.execute({name, crud: true})
CreateModule ==
  /\ pc = "module"
  /\ idx <= Len(modules)
  /\ LET name == getPlural(modules[idx])
     IN  \E overwrite \in BOOLEAN : \E io \in ModuleFaultPoints(name, overwrite) :
           /\ MayFail(io)
           /\ ModuleCommandExecute(name, TRUE, overwrite, io, CatchLog)
           /\ pc' = IF ModuleThrows(name, overwrite, io) THEN "failed"
                    ELSE IF idx = Len(modules) THEN AfterModules(details)
                    ELSE "module"
           /\ trace' = Append(trace, IF ModuleThrows(name, overwrite, io)
                                     THEN "failed" ELSE "module")
           /\ budget' = BudgetAfter(io)
  /\ idx' = idx + 1
  /\ UNCHANGED << ops, details, modules, fnVars >>

\* Step 6: npx prisma generate
GeneratePrismaClient ==
  /\ pc = "generate"
  /\ \E ok \in BOOLEAN :
       runCommand("npx prisma generate", ok, "generate", "finish")
  /\ UNCHANGED << fs, appModule, prismaSchema, deps, last, created, ops,
                  details, modules, idx, budget, fnVars >>

\* Step 7 and the closing message; createDirectory of .vscode may fail
Finish ==
  /\ pc = "finish"
  /\ \E io \in (IF Len(modules) > 0 THEN {"none", "write"} ELSE {"none"}) :
       /\ MayFail(io)
       /\ fs' = IF Len(modules) > 0 /\ io = "none"
                THEN fs \cup {".vscode", ".vscode/rest-client"}
                ELSE fs
       /\ log' = IF io = "write"
                 THEN log \o << LogRec("error", CreateDirectoryErrorMsg) >> \o CatchLog
                 ELSE Append(log, LogRec("success",
                                         "Project has been successfully created!"))
       /\ pc' = IF io = "write" THEN "failed" ELSE "done"
       /\ trace' = Append(trace, IF io = "write" THEN "failed" ELSE "done")
       /\ budget' = BudgetAfter(io)
  /\ UNCHANGED << appModule, prismaSchema, deps, last, created, ops, details,
                  modules, idx, fnVars >>

Next ==
  \/ CreateProject
  \/ GenerateEnvironment
  \/ InstallDependencies
  \/ AddDatabase
  \/ InstallDatabaseDependencies
  \/ AddAuth
  \/ InstallAuthDependencies
  \/ PrepareModules
  \/ CreateModule
  \/ GeneratePrismaClient
  \/ Finish

Spec == Init /\ [][Next]_vars

(***************************************************************************)
(* The commands of index.ts run one after the other from a directory that  *)
(* is absent, holds something else or holds a project: specification       *)
(* SpecCommands.  The project command targets that directory; the other    *)
(* commands run inside it.  Every file operation succeeds.                 *)
(***************************************************************************)
InitCommands ==
  /\ \E t \in TargetStates :
       /\ fs = t.files
       /\ appModule = t.app
       /\ deps = t.dependencies
  /\ prismaSchema = ""
  /\ log = << >>
  /\ last = NoPatch
  /\ created = << >>
  /\ ops = 0
  /\ pc = "cli"
  /\ details = NoDetails
  /\ modules = << >>
  /\ idx = 0
  /\ trace = << >>
  /\ budget = 0
  /\ input = ""
  /\ output = ""

RunProject ==
  /\ pc = "cli"
  /\ ops < MaxOps
  /\ \E overwrite \in BOOLEAN : ProjectCommandExecute(overwrite, "none", << >>)
  /\ ops' = ops + 1
  /\ UNCHANGED << allVars, fnVars >>

NextCommands == RunProject \/ RunModule \/ RunAuth \/ RunDatabase

SpecCommands == InitCommands /\ [][NextCommands]_vars

\* unit names listed in the modules option of the runs with failing files
FaultModuleNames == {"user", "post"}

\* a run on a fresh directory in which file operations may fail
InitFaults ==
  /\ fs = {}
  /\ appModule = ""
  /\ deps = {}
  /\ prismaSchema = ""
  /\ log = << >>
  /\ last = NoPatch
  /\ created = << >>
  /\ ops = 0
  /\ pc = "project"
  /\ \E a \in BOOLEAN, d \in AllDatabases,
        m \in SeqsUpTo(FaultModuleNames, MaxFaultModules) :
       /\ details = [auth |-> a, database |-> d, requested |-> m]
       /\ modules = m
  /\ idx = 0
  /\ trace = << >>
  /\ budget = MaxFaults
  /\ input = ""
  /\ output = ""

SpecFaults == InitFaults /\ [][Next]_vars

(***************************************************************************)
(* The factories called on their own: specification SpecResolve.  input is *)
(* the key, output what the call gave: the name of the strategy or of the  *)
(* architecture, or "throw" and the message of the Error thrown.           *)
(***************************************************************************)
\* s in every mix of lower and upper case
RECURSIVE CaseVariants(_)
CaseVariants(s) ==
  IF s = "" THEN {""}
  ELSE {c \o rest : c \in {ToLowerChar(CharAt(s, 0)), ToUpperChar(CharAt(s, 0))},
                    rest \in CaseVariants(SubstringFrom(s, 1))}

\* keys handed to the factories
ResolveKeys ==
  CaseVariants("prisma") \cup CaseVariants("nest")
    \cup {"nestjs", "NestJS", "typeorm", "TypeORM", "mongoose", "mysql",
          "unknown-backend", "express", "prism", "prismas"}

NoOutput == [factory |-> "", result |-> "", message |-> ""]

\* what is left of the state while a function is studied on its own
idleVars == << projVars, ops, details, modules, idx, trace, budget >>

InitResolve ==
  /\ fs = {}
  /\ appModule = ""
  /\ prismaSchema = ""
  /\ deps = {}
  /\ log = << >>
  /\ last = NoPatch
  /\ created = << >>
  /\ ops = 0
  /\ pc = "resolve"
  /\ details = NoDetails
  /\ modules = << >>
  /\ idx = 0
  /\ trace = << >>
  /\ budget = 0
  /\ input \in ResolveKeys
  /\ output = NoOutput

\* DatabaseStrategyFactory.getStrategy(input)
ResolveStrategy ==
  /\ pc = "resolve"
  /\ output' = [factory |-> "database",
                result |-> getStrategy(input),
                message |-> IF getStrategy(input) = "throw"
                            THEN getStrategyError(input) ELSE ""]
  /\ pc' = "resolved"
  /\ UNCHANGED << idleVars, input >>

\* ArchitectureFactory.getArchitecture(input)
ResolveArchitecture ==
  /\ pc = "resolve"
  /\ output' = [factory |-> "architecture",
                result |-> getArchitecture(input),
                message |-> IF getArchitecture(input) = "throw"
                            THEN getArchitectureError(input) ELSE ""]
  /\ pc' = "resolved"
  /\ UNCHANGED << idleVars, input >>

NextResolve == ResolveStrategy \/ ResolveArchitecture

SpecResolve == InitResolve /\ [][NextResolve]_vars

(***************************************************************************)
(* The names and the files of one unit: specification SpecNames.  input is *)
(* the raw token with the crud flag and whether a database strategy was    *)
(* found; output holds the forms ModuleCommand derives from the token and  *)
(* the files createModuleFiles writes.  A file is kept as its path, the    *)
(* class it exports, its operations and the store its operations use.      *)
(***************************************************************************)
\* length of the generated tokens
MaxTokenLen == 3

\* characters of the generated tokens
TokenAlphabet == {"e", "i", "k", "s", "y", "-"}

\* the strings over TokenAlphabet of length 1..n
RECURSIVE TokensUpTo(_)
TokensUpTo(n) ==
  IF n = 0 THEN {}
  ELSE TokenAlphabet
       \cup {t \o c : t \in TokensUpTo(n - 1), c \in TokenAlphabet}

\* tokens users give
NamedTokens ==
  {"invoices", "invoice", "category", "categories", "movie", "keys", "key",
   "class", "post", "user-profile", "user_profile", "order-items"}

Tokens == TokensUpTo(MaxTokenLen) \cup NamedTokens

\* one route of a controller
Route(verb, path, name) == [verb |-> verb, path |-> path, name |-> name]

\* a controller that lacks the delete route
HandlerOperationsNoDelete(withCrud) ==
  IF withCrud
  THEN << Route("Post", "", "create"), Route("Get", "", "findAll"),
          Route("Get", ":id", "findOne"), Route("Patch", ":id", "update") >>
  ELSE << >>

\* the routes of controllerContent
HandlerOperations(withCrud) ==
  IF withCrud
  THEN << Route("Post", "", "create"), Route("Get", "", "findAll"),
          Route("Get", ":id", "findOne"), Route("Patch", ":id", "update"),
          Route("Delete", ":id", "remove") >>
  ELSE << >>

\* the methods of serviceContent; the text of the database strategy
\* (getServiceImplementation) and the in-memory text have the same methods
LogicOperations(withCrud, databaseStrategy) ==
  IF withCrud
  THEN << "create", "findAll", "findOne", "update", "remove" >>
  ELSE << >>

\* what the methods of serviceContent store their records in
LogicStore(withCrud, databaseStrategy) ==
  IF databaseStrategy /\ withCrud THEN "prisma"
  ELSE IF withCrud THEN "memory"
  ELSE "none"

\* one import of a generated file: the class and the relative path
Import(name, from) == [name |-> name, from |-> from]

File(path, kind, class, operations, store, imports) ==
  [path |-> path, kind |-> kind, class |-> class, operations |-> operations,
   store |-> store, imports |-> imports]

\* an entity file named after the unit directory
EntityPathPlural(moduleDir, moduleName, singularName) ==
  moduleDir \o "/entities/" \o moduleName \o ".entity.ts"

\* path.join(moduleDir, "entities", singularName + ".entity.ts")
EntityPath(moduleDir, moduleName, singularName) ==
  moduleDir \o "/entities/" \o singularName \o ".entity.ts"

\* the dto imports of the crud controller and of both service texts
DtoImports(className, entityName) ==
  {Import("Create" \o className \o "Dto", "../dto/create-" \o entityName \o ".dto"),
   Import("Update" \o className \o "Dto", "../dto/update-" \o entityName \o ".dto")}

\* a strategy text whose class is named after the plural of the entity
getServiceImplementationPlural(entityName) ==
  LET className == toPascalCase(getPlural(entityName))
  IN  [class |-> className \o "Service",
       operations |-> << "create", "findAll", "findOne", "update", "remove" >>,
       store |-> "prisma",
       imports |-> {Import("PrismaService", "../../prisma/prisma.service")}
                     \cup DtoImports(className, entityName)]

\* PrismaStrategy.getServiceImplementation: the text it returns
getServiceImplementation(entityName) ==
  LET className == toPascalCase(entityName)
  IN  [class |-> className \o "Service",
       operations |-> << "create", "findAll", "findOne", "update", "remove" >>,
       store |-> "prisma",
       imports |-> {Import("PrismaService", "../../prisma/prisma.service")}
                     \cup DtoImports(className, entityName)]

\* serviceContent that never asks the strategy
serviceContentBuiltIn(singularName, className, withCrud, databaseStrategy) ==
  [class |-> className \o "Service",
   operations |-> LogicOperations(withCrud, FALSE),
   store |-> LogicStore(withCrud, FALSE),
   imports |-> IF withCrud THEN DtoImports(className, singularName) ELSE {}]

\* serviceContent of createModuleFiles: the text of the strategy, the
\* in-memory text or the empty class
serviceContent(singularName, className, withCrud, databaseStrategy) ==
  IF databaseStrategy /\ withCrud
  THEN getServiceImplementation(singularName)
  ELSE [class |-> className \o "Service",
        operations |-> LogicOperations(withCrud, databaseStrategy),
        store |-> LogicStore(withCrud, databaseStrategy),
        imports |-> IF withCrud THEN DtoImports(className, singularName)
                    ELSE {}]

\* ModuleCommand.createModuleFiles: the files it writes
createModuleFiles(moduleDir, moduleName, withCrud, databaseStrategy) ==
  LET singularName == getSingular(moduleName)
      className == toPascalCase(singularName)
      service == serviceContent(singularName, className, withCrud,
                                databaseStrategy)
      serviceImport ==
        Import(className \o "Service", "../services/" \o moduleName \o ".service")
  IN  {File(moduleDir \o "/" \o moduleName \o ".module.ts", "module",
            className \o "Module", << >>, "none",
            {Import(className \o "Controller",
                    "./controllers/" \o moduleName \o ".controller"),
             Import(className \o "Service",
                    "./services/" \o moduleName \o ".service")}),
       File(moduleDir \o "/controllers/" \o moduleName \o ".controller.ts",
            "controller", className \o "Controller",
            HandlerOperations(withCrud), "none",
            IF withCrud
            THEN {serviceImport} \cup DtoImports(className, singularName)
            ELSE {serviceImport}),
       File(moduleDir \o "/services/" \o moduleName \o ".service.ts",
            "service", service.class, service.operations, service.store,
            service.imports),
       File(EntityPath(moduleDir, moduleName, singularName), "entity",
            className, << >>, "none", {})}
      \cup (IF withCrud
            THEN {File(moduleDir \o "/dto/create-" \o singularName \o ".dto.ts",
                       "create-dto", "Create" \o className \o "Dto", << >>,
                       "none", {}),
                  File(moduleDir \o "/dto/update-" \o singularName \o ".dto.ts",
                       "update-dto", "Update" \o className \o "Dto", << >>,
                       "none",
                       {Import("Create" \o className \o "Dto",
                               "./create-" \o singularName \o ".dto")})}
            ELSE {})

\* AuthCommand.createAuthFiles: the files it writes.  The service text is
\* one template; its methods keep the users in the UserService it imports
createAuthFiles(authDir, useJwt) ==
  LET dtoImports == {Import("RegisterDto", "../dto/register.dto"),
                     Import("LoginDto", "../dto/login.dto")}
  IN  {File(authDir \o "/auth.module.ts", "module", "AuthModule", << >>, "none",
            {Import("AuthController", "./controllers/auth.controller"),
             Import("AuthService", "./services/auth.service"),
             Import("UserModule", "../user/user.module")}
            \cup (IF useJwt
                  THEN {Import("JwtStrategy", "./strategies/jwt.strategy")}
                  ELSE {})),
       File(authDir \o "/controllers/auth.controller.ts", "controller",
            "AuthController",
            IF useJwt
            THEN << Route("Post", "register", "register"),
                    Route("Post", "login", "login"),
                    Route("Get", "me", "getProfile"),
                    Route("Post", "refresh", "refreshToken") >>
            ELSE << Route("Post", "register", "register"),
                    Route("Post", "login", "login") >>,
            "none",
            {Import("AuthService", "../services/auth.service")} \cup dtoImports
            \cup (IF useJwt
                  THEN {Import("JwtAuthGuard", "../guards/jwt-auth.guard"),
                        Import("CurrentUser",
                               "../../common/decorators/current-user.decorator")}
                  ELSE {})),
       File(authDir \o "/services/auth.service.ts", "service", "AuthService",
            IF useJwt
            THEN << "register", "login", "validateUser", "refreshToken" >>
            ELSE << "register", "login" >>,
            "UserService",
            {Import("UserService", "../../user/services/users.service")}
            \cup dtoImports),
       File(authDir \o "/dto/register.dto.ts", "create-dto", "RegisterDto",
            << >>, "none", {}),
       File(authDir \o "/dto/login.dto.ts", "create-dto", "LoginDto",
            << >>, "none", {})}
      \cup (IF useJwt
            THEN {File(authDir \o "/strategies/jwt.strategy.ts", "strategy",
                       "JwtStrategy", << >>, "none",
                       {Import("AuthService", "../services/auth.service")}),
                  File(authDir \o "/guards/jwt-auth.guard.ts", "guard",
                       "JwtAuthGuard", << >>, "none", {}),
                  File("src/common/decorators/current-user.decorator.ts",
                       "decorator", "CurrentUser", << >>, "none", {})}
            ELSE {})

NoBundle ==
  [moduleName |-> "", singularName |-> "", className |-> "",
   propertyName |-> "", files |-> {}]

InitNames ==
  /\ fs = {}
  /\ appModule = ""
  /\ prismaSchema = ""
  /\ deps = {}
  /\ log = << >>
  /\ last = NoPatch
  /\ created = << >>
  /\ ops = 0
  /\ pc = "names"
  /\ details = NoDetails
  /\ modules = << >>
  /\ idx = 0
  /\ trace = << >>
  /\ budget = 0
  /\ \E t \in Tokens, c \in BOOLEAN, d \in BOOLEAN :
       input = [token |-> t, withCrud |-> c, databaseStrategy |-> d]
  /\ output = NoBundle

\* ModuleCommand.execute from "Always use plural form" to createModuleFiles
CreateModuleFiles ==
  /\ pc = "names"
  /\ LET moduleName == getPlural(input.token)
         singularName == getSingular(moduleName)
     IN  output' =
           [moduleName |-> moduleName,
            singularName |-> singularName,
            className |-> toPascalCase(singularName),
            propertyName |-> toCamelCase(singularName),
            files |-> createModuleFiles("src/" \o moduleName, moduleName,
                                        input.withCrud, input.databaseStrategy)]
  /\ pc' = "named"
  /\ UNCHANGED << idleVars, input >>

NextNames == CreateModuleFiles

SpecNames == InitNames /\ [][NextNames]_vars

(***************************************************************************)
(* Raw names on their way into the commands: specification SpecRawNames.   *)
(* input is the raw name and the way it is given: with --name, typed at    *)
(* the question of the command, or listed in the modules of AllCommand.    *)
(* The validate function of a question rejects a raw name and the question *)
(* stays open; a name given as an option reaches the command as it is.     *)
(***************************************************************************)
\* length of the generated raw names
MaxRawLen == 2

\* characters of the generated raw names
RawAlphabet == {"a", "B", "-", " "}

\* the strings over RawAlphabet of length 1..n
RECURSIVE RawsUpTo(_)
RawsUpTo(n) ==
  IF n = 0 THEN {}
  ELSE RawAlphabet \cup {t \o c : t \in RawsUpTo(n - 1), c \in RawAlphabet}

RawNames == RawsUpTo(MaxRawLen) \cup {"post", "Post", "my app", "order_items", "v2"}

NameSources ==
  {"module-option", "module-prompt", "all-modules", "project-option",
   "project-prompt"}

Digits == "0123456789"

\* /^([a-z\-\_\d])+$/.test(raw)
ValidName(raw) ==
  /\ Len(raw) > 0
  /\ \A i \in 0..(Len(raw) - 1) :
       \/ IndexOf(LowerAlphabet, CharAt(raw, i)) # -1
       \/ IndexOf(Digits, CharAt(raw, i)) # -1
       \/ CharAt(raw, i) \in {"-", "_"}

ModuleNameMsg ==
  "Module name may only include lowercase letters, numbers, underscores and hashes."

ProjectNameMsg ==
  "Project name may only include lowercase letters, numbers, underscores and hashes."

\* the directory the command of a source runs in
InitialFiles(source) ==
  IF source \in {"project-option", "project-prompt"} THEN {}
  ELSE ProjectFiles \cup EnvFiles

InitRawNames ==
  /\ \E r \in RawNames, src \in NameSources :
       /\ input = [raw |-> r, source |-> src]
       /\ fs = InitialFiles(src)
       /\ appModule = IF fs = {} THEN "" ELSE AppModuleTemplate
       /\ deps = IF fs = {} THEN {} ELSE BaseDeps
  /\ prismaSchema = ""
  /\ log = << >>
  /\ last = NoPatch
  /\ created = << >>
  /\ ops = 0
  /\ pc = "raw"
  /\ details = NoDetails
  /\ modules = << >>
  /\ idx = 0
  /\ trace = << >>
  /\ budget = 0
  /\ output = ""

\* a question whose validate function returned its message
Rejected(message) ==
  /\ log' = Append(log, LogRec("prompt", message))
  /\ pc' = "asking"
  /\ UNCHANGED << fs, appModule, prismaSchema, deps, last, created, output >>

\* ModuleCommand.execute({name, crud}) of the module command with --name
ModuleWithName ==
  /\ pc = "raw"
  /\ input.source = "module-option"
  /\ \E withCrud \in BOOLEAN :
       ModuleCommandExecute(input.raw, withCrud, FALSE, "none", << >>)
  /\ pc' = "ran"
  /\ output' = input.raw
  /\ UNCHANGED << ops, details, modules, idx, trace, budget, input >>

\* ModuleCommand.execute({}) : the name is typed at the question
ModuleAsked ==
  /\ pc = "raw"
  /\ input.source = "module-prompt"
  /\ IF ValidName(input.raw)
     THEN /\ \E withCrud \in BOOLEAN :
               ModuleCommandExecute(input.raw, withCrud, FALSE, "none", << >>)
          /\ pc' = "ran"
          /\ output' = input.raw
     ELSE Rejected(ModuleNameMsg)
  /\ UNCHANGED << ops, details, modules, idx, trace, budget, input >>

\* one turn of the loop of AllCommand.execute over the listed modules
ModuleListed ==
  /\ pc = "raw"
  /\ input.source = "all-modules"
  /\ ModuleCommandExecute(getPlural(input.raw), TRUE, FALSE, "none", << >>)
  /\ pc' = "ran"
  /\ output' = getPlural(input.raw)
  /\ UNCHANGED << ops, details, modules, idx, trace, budget, input >>

\* ProjectCommand.execute({name}) of the project command with --name and of
\* AllCommand.execute
ProjectWithName ==
  /\ pc = "raw"
  /\ input.source = "project-option"
  /\ ProjectCommandExecute(FALSE, "none", << >>)
  /\ pc' = "ran"
  /\ output' = input.raw
  /\ UNCHANGED << ops, details, modules, idx, trace, budget, input >>

\* ProjectCommand.execute({}) : the name is typed at the question
ProjectAsked ==
  /\ pc = "raw"
  /\ input.source = "project-prompt"
  /\ IF ValidName(input.raw)
     THEN /\ ProjectCommandExecute(FALSE, "none", << >>)
          /\ pc' = "ran"
          /\ output' = input.raw
     ELSE Rejected(ProjectNameMsg)
  /\ UNCHANGED << ops, details, modules, idx, trace, budget, input >>

\* the user types another name at the open question
Retype ==
  /\ pc = "asking"
  /\ ops < MaxOps
  /\ \E r \in RawNames : input' = [input EXCEPT !.raw = r]
  /\ pc' = "raw"
  /\ ops' = ops + 1
  /\ UNCHANGED << projVars, details, modules, idx, trace, budget, output >>

NextRawNames ==
  \/ ModuleWithName
  \/ ModuleAsked
  \/ ModuleListed
  \/ ProjectWithName
  \/ ProjectAsked
  \/ Retype

SpecRawNames == InitRawNames /\ [][NextRawNames]_vars

(***************************************************************************)
(* Reading an aggregator text: the registration list and the import        *)
(* statements, as the file format defines them.                            *)
(***************************************************************************)
IsBlank(c) == c \in {" ", "\n", "\t"}

\* s without leading and trailing white space
Trim(s) ==
  LET keep == {i \in 1..Len(s) : ~IsBlank(SubSeq(s, i, i))}
  IN  IF keep = {} THEN ""
      ELSE SubSeq(s, Min(keep), Max(keep))

ListDelimiters == {",", "[", "]", "(", ")", "{", "}"}

\* index of the first delimiter at or after from, else -1
NextDelimiter(text, from) ==
  LET c == {i \in from..(Len(text) - 1) : CharAt(text, i) \in ListDelimiters}
  IN  IF c = {} THEN -1 ELSE Min(c)

AppendEntry(acc, raw) == IF Trim(raw) = "" THEN acc ELSE Append(acc, Trim(raw))

\* the entries from index pos on; start is where the current entry starts
RECURSIVE ScanEntries(_, _, _, _, _)
ScanEntries(text, pos, depth, start, acc) ==
  LET d == NextDelimiter(text, pos)
      c == CharAt(text, d)
  IN  IF d = -1 THEN acc
      ELSE IF c \in {"[", "(", "{"}
      THEN ScanEntries(text, d + 1, depth + 1, start, acc)
      ELSE IF c \in {")", "}"}
      THEN ScanEntries(text, d + 1, depth - 1, start, acc)
      ELSE IF c = "]"
      THEN IF depth = 0 THEN AppendEntry(acc, Substring(text, start, d))
           ELSE ScanEntries(text, d + 1, depth - 1, start, acc)
      ELSE IF depth = 0
      THEN ScanEntries(text, d + 1, depth, d + 1,
                       AppendEntry(acc, Substring(text, start, d)))
      ELSE ScanEntries(text, d + 1, depth, start, acc)

\* the entries of the registration list, in order (empty without a list)
Entries(text) ==
  LET a == IndexOf(text, ImportsAnchor)
  IN  IF a = -1 THEN << >>
      ELSE ScanEntries(text, a + Len(ImportsAnchor), 0,
                       a + Len(ImportsAnchor), << >>)

EntrySet(text) == {Entries(text)[i] : i \in 1..Len(Entries(text))}

NoDuplicates(seq) ==
  \A i, j \in 1..Len(seq) : seq[i] = seq[j] => i = j

\* the import statements of the text: from each "import {" to its ";"
ImportStatementSet(text) ==
  {Substring(text, i, IndexOfFrom(text, ";", i) + 1) :
     i \in {k \in 0..(Len(text) - 8) :
              /\ SubSeq(text, k + 1, k + 8) = "import {"
              /\ IndexOfFrom(text, ";", k) # -1}}

\* number of places where p occurs in s
Occurrences(s, p) ==
  Cardinality({i \in 0..(Len(s) - Len(p)) : SubSeq(s, i + 1, i + Len(p)) = p})

\* width of the blocks CommonPrefix compares first
PrefixBlock == 16

\* length of the longest common prefix of t from i and u from j (1-based):
\* the first block that differs, then the first character that differs in it
CommonPrefix(t, i, u, j) ==
  LET lim == IF Len(t) - i < Len(u) - j THEN Len(t) - i + 1 ELSE Len(u) - j + 1
      upTo(n) == IF n < lim THEN n ELSE lim
      blocks == {b \in 0..(lim \div PrefixBlock) :
                   SubSeq(t, i + b * PrefixBlock, i + upTo((b + 1) * PrefixBlock) - 1)
                     # SubSeq(u, j + b * PrefixBlock, j + upTo((b + 1) * PrefixBlock) - 1)}
      base == IF blocks = {} THEN lim ELSE Min(blocks) * PrefixBlock
      diff == {n \in base..(upTo(base + PrefixBlock) - 1) :
                 SubSeq(t, i + n, i + n) # SubSeq(u, j + n, j + n)}
  IN  IF diff = {} THEN lim ELSE Min(diff)

\* t from i on is a subsequence of u from j on: u is t with text inserted
RECURSIVE IsSubsequenceFrom(_, _, _, _)
IsSubsequenceFrom(t, i, u, j) ==
  IF i > Len(t) THEN TRUE
  ELSE IF Len(u) - j < Len(t) - i THEN FALSE
  ELSE IF SubSeq(t, i, Len(t)) = SubSeq(u, Len(u) - (Len(t) - i), Len(u)) THEN TRUE
  ELSE LET n == CommonPrefix(t, i, u, j)
       IN  IF n > 0 THEN IsSubsequenceFrom(t, i + n, u, j + n)
           ELSE LET k == {m \in j..Len(u) : SubSeq(u, m, m) = SubSeq(t, i, i)}
                IN  IF k = {} THEN FALSE
                    ELSE IsSubsequenceFrom(t, i, u, Min(k))

IsSubsequence(t, u) == IsSubsequenceFrom(t, 1, u, 1)

\* seq a is a subsequence of seq b
RECURSIVE IsSubSeqOf(_, _)
IsSubSeqOf(a, b) ==
  IF a = << >> THEN TRUE
  ELSE IF b = << >> THEN FALSE
  ELSE IF Head(a) = Head(b) THEN IsSubSeqOf(Tail(a), Tail(b))
  ELSE IsSubSeqOf(a, Tail(b))

(***************************************************************************)
(* Properties of the aggregator patch, checked under SpecCli.              *)
(***************************************************************************)
\* the import line and the identifier of every command of SpecCli
PatchInputs ==
  {[I |-> ModuleImportStatement(getPlural(n)), R |-> ModuleClassName(getPlural(n))] :
     n \in CliModuleNames}
  \cup {[I |-> AuthImportStatement, R |-> "AuthModule"],
        [I |-> PrismaImportStatement, R |-> "PrismaModule"]}

\* the last command ran the updater on a text that did not hold its identifier
Inserted == last.ran /\ ~Includes(last.pre, last.R)

\* what the last command logged
LastLog == SubSeq(log, last.at + 1, Len(log))

Logged(recs, level, msg) ==
  \E i \in 1..Len(recs) : recs[i] = LogRec(level, msg)

\* C1: the patch is idempotent: patching the text a command has patched once
\* more with the same import line and identifier gives that text again; and a
\* command that finds its identifier anywhere in the text leaves the text as
\* it is (no second import line, no second entry).
C1_Idempotent ==
  last.ran =>
    /\ PatchAppModule(appModule, last.I, last.R) = appModule
    /\ Includes(last.pre, last.R) => appModule = last.pre

\* a command patched a text that already held its own import line
C1_Witness ==
  /\ last.ran
  /\ Includes(last.pre, last.I)
  /\ Occurrences(appModule, last.I) = 1
  /\ Occurrences(appModule, last.R) = 2

\* C2: the patch only inserts: the text before is a subsequence of the text
\* after (nothing removed, nothing reordered), every import statement and
\* every registration entry of the text before is in the text after, the
\* entries in their previous order.
C2_Monotonic ==
  last.ran =>
    /\ IsSubsequence(last.pre, appModule)
    /\ ImportStatementSet(last.pre) \subseteq ImportStatementSet(appModule)
    /\ IsSubSeqOf(Entries(last.pre), Entries(appModule))

\* a command inserted into a text that held imports and two entries
C2_Witness ==
  /\ Inserted
  /\ appModule # last.pre
  /\ Len(Entries(last.pre)) >= 2
  /\ ImportStatementSet(last.pre) # {}
  /\ IsSubsequence(last.pre, appModule)

\* C3 (as claimed): every patch of an aggregator that has a registration list
\* leaves the set of entries equal to the set before plus the identifier of
\* the patch, and no entry occurs twice.
C3_Claim ==
  (last.ran /\ Includes(last.pre, ImportsAnchor)) =>
    /\ EntrySet(appModule) = EntrySet(last.pre) \cup {last.R}
    /\ NoDuplicates(Entries(appModule))

\* C4 (as claimed): patching a text that holds the canonical empty list gives
\* a text with one occurrence of the identifier in the import block and the
\* one-element list "imports: [R],".
C4_Claim ==
  (Inserted /\ Includes(last.pre, EmptyImportsLiteral)) =>
    /\ Includes(appModule, "imports: [" \o last.R \o "],")
    /\ Occurrences(appModule, last.I) = 1

\* end of the last import statement of the text, 0 when it has none
ImportAnchorIndex(text) ==
  LET firsts == {i \in 0..(Len(text) - 8) : SubSeq(text, i + 1, i + 8) = "import {"}
  IN  IF firsts = {} THEN 0
      ELSE IndexOfFrom(text, ";", Max(firsts)) + 1

\* C5 (as claimed): the import line is inserted at the end of the last import
\* statement, or at the start of a text without one, and a newline follows it.
C5_Claim ==
  Inserted =>
    LET at == IndexOf(appModule, last.I)
    IN  /\ at # -1
        /\ CharAt(appModule, at + Len(last.I)) = "\n"
        /\ Trim(Substring(appModule, 0, at))
             = Trim(Substring(last.pre, 0, ImportAnchorIndex(last.pre)))

\* C6: when the registration list holds at least one entry, the new identifier
\* becomes the first entry, right after the opening bracket and followed by a
\* comma, and the earlier entries follow in their previous order.
C6_InsertFirst ==
  (Inserted /\ Len(Entries(last.pre)) >= 1) =>
    /\ Entries(appModule) = << last.R >> \o Entries(last.pre)
    /\ LET a == IndexOf(appModule, ImportsAnchor) + Len(ImportsAnchor)
       IN  StartsWith(Trim(SubstringFrom(appModule, a)), last.R \o ",")

\* a command registered a unit in a list that held two entries
C6_Witness ==
  /\ Inserted
  /\ Len(Entries(last.pre)) = 2
  /\ Len(Entries(appModule)) = 3
  /\ Entries(appModule)[1] = last.R

ProjectCreatedMsg == "Project created successfully!"

UserRequested ==
  Contains(details.requested, "user") \/ Contains(details.requested, "users")

CountOf(seq, x) == Cardinality({i \in 1..Len(seq) : seq[i] = x})

\* C8 (as claimed): in a finished run with auth whose project step wrote the
\* skeleton, a requested unit named user or users is dropped with a warning,
\* the user unit is not created twice, and the aggregator holds exactly one
\* import line and exactly one registration entry of the user unit.
C8_Claim ==
  (/\ pc = "done"
   /\ details.auth
   /\ UserRequested
   /\ Logged(log, "success", ProjectCreatedMsg)) =>
    /\ Logged(log, "warning", SkipUserMsg)
    /\ CountOf(created, "users") <= 1
    /\ Occurrences(appModule, "import { UserModule }") = 1
    /\ CountOf(Entries(appModule), "UserModule") = 1

\* C9 (as claimed): with auth a user unit is created in every finished run
\* whose project step wrote the skeleton, and no unit is created before it.
C9_Claim ==
  (details.auth /\ Logged(log, "success", ProjectCreatedMsg)) =>
    /\ created # << >> => created[1] = "users"
    /\ pc = "done" => created # << >>

\* the state of the workflow a finished step belongs to
Rank(step) ==
  CASE step \in {"project", "env"} -> 1
    [] step = "install" -> 2
    [] step \in {"database", "database-install"} -> 3
    [] step \in {"auth", "auth-install"} -> 4
    [] step \in {"prepare", "module"} -> 5
    [] step \in {"generate", "done"} -> 6
    [] OTHER -> 7

\* C10: the steps of a run come in the fixed order structure, dependencies,
\* persistence, auth, units, done: a step of a later state never comes before
\* a step of an earlier one, no step but the unit step runs twice, and a
\* finished run has the structure and dependency steps, the persistence steps
\* exactly when a database was asked for, the auth steps exactly when auth was
\* asked for, and one unit step per unit of the list.
C10_Order ==
  /\ \A i, j \in 1..Len(trace) : i < j => Rank(trace[i]) <= Rank(trace[j])
  /\ \A i, j \in 1..Len(trace) :
       (trace[i] = trace[j] /\ trace[i] # "module") => i = j
  /\ pc = "done" =>
       /\ SubSeq(trace, 1, 3) = << "project", "env", "install" >>
       /\ trace[Len(trace)] = "done"
       /\ Contains(trace, "database") <=> details.database # ""
       /\ Contains(trace, "database-install") <=> details.database # ""
       /\ Contains(trace, "auth") <=> details.auth
       /\ Contains(trace, "auth-install") <=> details.auth
       /\ CountOf(trace, "module") = Len(modules)
       /\ Len(modules) >= Len(details.requested)

\* a finished run with a database, auth and two units
C10_Witness ==
  /\ pc = "done"
  /\ details.database # ""
  /\ details.auth
  /\ CountOf(trace, "module") >= 2
  /\ Contains(trace, "database-install")
  /\ Contains(trace, "auth-install")

(***************************************************************************)
(* Errors of the external collaborators in the create-everything workflow. *)
(***************************************************************************)
\* what the earlier steps have written
Artifacts == << fs, appModule, prismaSchema, deps >>

\* a process call has failed: runCommand logged it
ProcessFailed ==
  \E i \in 1..Len(log) :
    log[i].level = "error" /\ StartsWith(log[i].msg, "Command failed: ")

\* C11: when a process call (npm install, npx prisma generate) fails, the
\* workflow is in its failed state, the message of the catch is the last thing
\* logged, the failing step leaves every artifact written so far as it is
\* (nothing removed, nothing changed), and no step runs afterwards.
C11_ProcessFailure ==
  /\ [](ProcessFailed =>
          /\ pc = "failed"
          /\ trace[Len(trace)] = "failed"
          /\ log[Len(log)] = LogRec("error", "Error creating project"))
  /\ [][(ProcessFailed' /\ ~ProcessFailed) => UNCHANGED Artifacts]_vars
  /\ [][~ProcessFailed]_vars

\* the client generation failed after the database, auth and unit steps had
\* written their files
C11_Witness ==
  /\ pc = "failed"
  /\ ProcessFailed
  /\ created # << >>
  /\ Exists(fs, "src/auth/auth.module.ts")
  /\ Exists(fs, SchemaPath)
  /\ Contains(trace, "module")

\* the messages printed when a file operation failed
FileErrorMsgs ==
  {CreateDirectoryErrorMsg, UpdateFileErrorMsg, EnvErrorMsg, PackageJsonErrorMsg}

\* an external collaborator (file system or process) has failed
CollaboratorFailed ==
  \/ ProcessFailed
  \/ \E i \in 1..Len(log) : log[i].level = "error" /\ log[i].msg \in FileErrorMsgs

\* C12 (as claimed): an error of an external collaborator in any step moves
\* the workflow directly to its failed state: once a file operation or a
\* process call has failed the workflow is failed, so no later step runs.
C12_Claim == CollaboratorFailed => pc = "failed"

(***************************************************************************)
(* Resolution of a strategy key.                                           *)
(***************************************************************************)
\* the keys a factory knows, as the claim counts them
ValidKeys(factory) ==
  IF factory = "database" THEN {"prisma"} ELSE {"nest", "nestjs"}

\* C13 (as claimed): resolving a key that is not registered, in any letter
\* case, fails with an error whose message names the rejected key and every
\* valid key, and never gives a strategy.
C13_Claim ==
  (pc = "resolved" /\ ToLowerCase(input) \notin ValidKeys(output.factory)) =>
    /\ output.result = "throw"
    /\ Includes(output.message, input)
    /\ \A k \in ValidKeys(output.factory) : Includes(output.message, k)

\* C14 (as claimed): when the database step is given a key that does not
\* resolve, it ends with the error and writes nothing: no configuration file,
\* no aggregator patch, no dependency, and it does not report success.
C14_Claim ==
  (getStrategy(details.database) = "throw" /\ details.database # "") =>
    /\ fs \cap PrismaFiles = {}
    /\ ~Includes(appModule, "PrismaModule")
    /\ deps \cap PrismaDeps = {}
    /\ ~Logged(log, "success", "Prisma database integration added successfully!")

(***************************************************************************)
(* Properties of the names of a unit, checked under SpecNames.             *)
(***************************************************************************)
\* singular nouns whose plural is regular
RegularNouns == {"invoice", "category", "movie", "key", "post", "user-profile"}

\* C15 (as claimed): the singular form derived from the plural form of a
\* regular noun is the noun itself.
C15_Claim ==
  (pc = "named" /\ input.token \in RegularNouns) =>
    output.singularName = input.token

\* C16 (as claimed): for every token, the plural form derived again from the
\* singular form is the plural form the unit already has.
C16_Claim ==
  pc = "named" => getPlural(output.singularName) = output.moduleName

\* C17 (as claimed): the property form of the class form is the property form.
C17_Claim ==
  pc = "named" => toCamelCase(output.className) = output.propertyName

\* the consonants that are not the plural "s" and not "y"
BareConsonants == "bcdfghjklmnpqrtvwxz"

EndsInBareConsonant(x) ==
  x # "" /\ Includes(BareConsonants, CharAt(x, Len(x) - 1))

\* C18 (as claimed): a trailing y becomes ies and a trailing ies becomes y, a
\* trailing s that is not ss is stripped to get the singular, and a token that
\* ends in a bare consonant or in ss gets its plural by appending s.
C18_Claim ==
  pc = "named" =>
    LET x == input.token
        P == output.moduleName
        S == output.singularName
    IN  /\ EndsWith(x, "y") => P = SliceEnd(x, 1) \o "ies"
        /\ EndsWith(P, "ies") => S = SliceEnd(P, 3) \o "y"
        /\ (EndsWith(P, "s") /\ ~EndsWith(P, "ss") /\ ~EndsWith(P, "ies")) =>
             S = SliceEnd(P, 1)
        /\ (EndsWith(x, "ss") \/ EndsInBareConsonant(x)) => P = x \o "s"
        /\ x = "category" => P = "categories"

\* C18 (amended): a trailing y becomes ies and a trailing ies becomes y, a
\* trailing s that is not ss is stripped to get the singular, a token that ends
\* in s (in ss as well) is its own plural and a token ending in ss its own
\* singular, and every other token gets its plural by appending s.
C18_Rule ==
  pc = "named" =>
    LET x == input.token
        P == output.moduleName
        S == output.singularName
    IN  /\ EndsWith(x, "y") => P = SliceEnd(x, 1) \o "ies"
        /\ EndsWith(P, "ies") => S = SliceEnd(P, 3) \o "y"
        /\ (EndsWith(P, "s") /\ ~EndsWith(P, "ss") /\ ~EndsWith(P, "ies")) =>
             S = SliceEnd(P, 1)
        /\ EndsWith(x, "s") => P = x
        /\ EndsWith(P, "ss") => S = P
        /\ (~EndsWith(x, "s") /\ ~EndsWith(x, "y")) => P = x \o "s"
        /\ x = "category" => P = "categories"

\* the unit of a token that ends in ss was named
C18_Witness ==
  /\ pc = "named"
  /\ input.token = "class"
  /\ output.moduleName = "class"
  /\ output.singularName = "class"

\* the last component of a path
BaseName(path) == SubstringFrom(path, LastIndexOf(path, "/") + 1)

\* what stands before and after the class form in the class a file exports
ClassPrefix(kind) ==
  CASE kind = "create-dto" -> "Create"
    [] kind = "update-dto" -> "Update"
    [] OTHER -> ""

ClassSuffix(kind) ==
  CASE kind = "module" -> "Module"
    [] kind = "controller" -> "Controller"
    [] kind = "service" -> "Service"
    [] kind \in {"create-dto", "update-dto"} -> "Dto"
    [] OTHER -> ""

\* C19 (as claimed): every file of a unit lies in the directory named by the
\* plural form and has a file name derived from the plural form, every class
\* identifier is derived from the class form of the singular form, and the
\* token invoices has the singular form invoice, the class form Invoice and
\* the property form invoice.
C19_Claim ==
  pc = "named" =>
    /\ \A f \in output.files :
         /\ StartsWith(f.path, "src/" \o output.moduleName \o "/")
         /\ Includes(BaseName(f.path), output.moduleName \o ".")
         /\ f.class = ClassPrefix(f.kind) \o output.className \o ClassSuffix(f.kind)
    /\ output.className = toPascalCase(output.singularName)
    /\ input.token = "invoices" =>
         /\ output.singularName = "invoice"
         /\ output.className = "Invoice"
         /\ output.propertyName = "invoice"

\* C19 (amended): every file of a unit lies in the directory named by the
\* plural form; the module, controller and service files are named by the
\* plural form, the entity and dto files by the singular form; every class
\* identifier is derived from the class form of the singular form; and the
\* token invoices has the singular form invoice, the class form Invoice and
\* the property form invoice.
C19_Paths ==
  pc = "named" =>
    /\ \A f \in output.files :
         /\ StartsWith(f.path, "src/" \o output.moduleName \o "/")
         /\ f.kind \in {"module", "controller", "service"} =>
              BaseName(f.path) = output.moduleName \o "." \o f.kind \o ".ts"
         /\ f.kind = "entity" =>
              BaseName(f.path) = output.singularName \o ".entity.ts"
         /\ f.kind \in {"create-dto", "update-dto"} =>
              BaseName(f.path)
                = ToLowerCase(ClassPrefix(f.kind)) \o "-" \o output.singularName
                    \o ".dto.ts"
         /\ f.class = ClassPrefix(f.kind) \o output.className \o ClassSuffix(f.kind)
    /\ output.className = toPascalCase(output.singularName)
    /\ input.token = "invoices" =>
         /\ output.singularName = "invoice"
         /\ output.className = "Invoice"
         /\ output.propertyName = "invoice"

\* the files of the unit invoices were written, with crud
C19_Witness ==
  /\ pc = "named"
  /\ input.token = "invoices"
  /\ input.withCrud
  /\ \E f \in output.files :
       f.path = "src/invoices/entities/invoice.entity.ts" /\ f.class = "Invoice"
  /\ \E f \in output.files :
       f.path = "src/invoices/invoices.module.ts" /\ f.class = "InvoiceModule"

\* the five standard operations, as verb and route
StandardOperations ==
  {<< "Post", "" >>, << "Get", "" >>, << "Get", ":id" >>, << "Patch", ":id" >>,
   << "Delete", ":id" >>}

OfKind(files, kind) == {f \in files : f.kind = kind}

SeqToSet(seq) == {seq[i] : i \in 1..Len(seq)}

\* C20: createModuleFiles always writes one module file and one entity file,
\* one controller and one service; with crud the controller has exactly the
\* five standard operations, each calling a method of the service, and the
\* service has those five methods; without crud the controller and the
\* service have no operations, with or without a database strategy, and
\* nothing but the four files is written.
C20_Render ==
  pc = "named" =>
    LET F == output.files
    IN  /\ \A k \in {"module", "entity", "controller", "service"} :
             Cardinality(OfKind(F, k)) = 1
        /\ input.withCrud =>
             /\ \A c \in OfKind(F, "controller") :
                  /\ Len(c.operations) = 5
                  /\ {<< r.verb, r.path >> : r \in SeqToSet(c.operations)}
                       = StandardOperations
                  /\ \A s \in OfKind(F, "service") :
                       {r.name : r \in SeqToSet(c.operations)}
                         = SeqToSet(s.operations)
             /\ \A s \in OfKind(F, "service") :
                  Len(s.operations) = 5 /\ s.store # "none"
        /\ ~input.withCrud =>
             /\ \A f \in F : f.operations = << >> /\ f.store = "none"
             /\ Cardinality(F) = 4

\* a unit without crud was written in a project with a database strategy
C20_Witness ==
  /\ pc = "named"
  /\ ~input.withCrud
  /\ input.databaseStrategy
  /\ input.token = "post"
  /\ Cardinality(output.files) = 4
  /\ \E f \in output.files : f.kind = "controller" /\ f.operations = << >>

(***************************************************************************)
(* Properties of the texts of a unit, checked under SpecNames.             *)
(***************************************************************************)
\* the text of a written file, without its path
Text(f) ==
  [class |-> f.class, operations |-> f.operations, store |-> f.store,
   imports |-> f.imports]

\* C21: with crud and a database strategy the service file is the text the
\* strategy returns for the singular name of the unit; the in-memory text is
\* written with crud and no strategy, and never when a strategy is given.
C21_Delegation ==
  pc = "named" =>
    \A f \in OfKind(output.files, "service") :
      /\ (input.withCrud /\ input.databaseStrategy) =>
           Text(f) = getServiceImplementation(output.singularName)
      /\ (input.withCrud /\ ~input.databaseStrategy) => f.store = "memory"
      /\ f.store = "memory" => ~input.databaseStrategy

\* the crud unit invoices was written in a project with a database strategy
C21_Witness ==
  /\ pc = "named"
  /\ input.token = "invoices"
  /\ input.withCrud
  /\ input.databaseStrategy
  /\ \E f \in output.files :
       /\ f.path = "src/invoices/services/invoices.service.ts"
       /\ f.class = "InvoiceService"
       /\ f.store = "prisma"
       /\ Import("PrismaService", "../../prisma/prisma.service") \in f.imports
       /\ Import("CreateInvoiceDto", "../dto/create-invoice.dto") \in f.imports

\* the directory of a path
Dirname(path) ==
  IF LastIndexOf(path, "/") = -1 THEN ""
  ELSE Substring(path, 0, LastIndexOf(path, "/"))

\* the path a relative specifier names, seen from directory dir
RECURSIVE ResolveFrom(_, _)
ResolveFrom(dir, rel) ==
  IF StartsWith(rel, "./") THEN ResolveFrom(dir, SubstringFrom(rel, 2))
  ELSE IF StartsWith(rel, "../")
  THEN ResolveFrom(Dirname(dir), SubstringFrom(rel, 3))
  ELSE dir \o "/" \o rel

\* the file an import of the file at path refers to
ImportedPath(path, imp) == ResolveFrom(Dirname(path), imp.from) \o ".ts"

\* C22: the files of one unit are consistent: every import of the module file
\* and of the controller file names a path that is written for the unit, and
\* the class it imports is the class the file at that path exports; the same
\* when the service text comes from the database strategy.
C22_Consistent ==
  pc = "named" =>
    \A f \in output.files :
      f.kind \in {"module", "controller"} =>
        \A imp \in f.imports :
          \E g \in output.files :
            /\ g.path = ImportedPath(f.path, imp)
            /\ g.class = imp.name

\* the crud unit user-profile was written with the text of the strategy, and
\* its controller imports the service and both dto classes
C22_Witness ==
  /\ pc = "named"
  /\ input.token = "user-profile"
  /\ input.withCrud
  /\ input.databaseStrategy
  /\ \E f \in OfKind(output.files, "controller") :
       /\ Cardinality(f.imports) = 3
       /\ Import("UserProfileService", "../services/user-profiles.service")
            \in f.imports
  /\ \E g \in OfKind(output.files, "service") :
       /\ g.path = "src/user-profiles/services/user-profiles.service.ts"
       /\ g.class = "UserProfileService"
       /\ g.store = "prisma"

(***************************************************************************)
(* Properties of the commands, checked under SpecCommands.                 *)
(***************************************************************************)
\* the target directories of the project, module and auth commands
OverwriteTargets ==
  {".", "src/auth"} \cup {"src/" \o getPlural(n) : n \in CliModuleNames}

OverwriteQuestion(path) == path \o " already exists. Do you want to overwrite it?"

\* what the command that has just run logged
Said(before, after) == SubSeq(after, Len(before) + 1, Len(after))

\* the message with which the command that targets path reports its files
WrittenMsg(path) ==
  IF path = "." THEN "Project created successfully!"
  ELSE IF path = "src/auth" THEN "Authentication module created successfully!"
  ELSE "Module " \o SubstringFrom(path, 4) \o " created successfully!"

\* the paths at and below path
Tree(files, path) ==
  IF path = "." THEN files
  ELSE {f \in files : f = path \/ StartsWith(f, path \o "/")}

\* C23: an existing target is never overwritten unasked.  In every step of a
\* command and for every target directory: the overwrite question is asked
\* only about a directory that exists; after the answer No nothing is removed
\* and nothing is written; a command that reports its files under a directory
\* that existed was answered Yes; and what a step removes lies in a directory
\* whose overwrite was answered Yes.
C23_NoAutoOverwrite ==
  [][\A p \in OverwriteTargets :
       LET said == Said(log, log')
           yes == Logged(said, "prompt", OverwriteQuestion(p) \o " Yes")
           no == Logged(said, "prompt", OverwriteQuestion(p) \o " No")
       IN  /\ (yes \/ no) => Exists(fs, p)
           /\ no => UNCHANGED << fs, appModule, prismaSchema, deps, created >>
           /\ (Logged(said, "success", WrittenMsg(p)) /\ Exists(fs, p)) => yes
           /\ (Tree(fs, p) \ fs' # {}) =>
                \E q \in OverwriteTargets :
                  /\ Logged(said, "prompt", OverwriteQuestion(q) \o " Yes")
                  /\ fs \ fs' \subseteq Tree(fs, q)]_vars

\* a second run of the module command for post was answered No, and
\* src/posts is still there
C23_Witness ==
  /\ pc = "cli"
  /\ Logged(log, "prompt", OverwriteQuestion("src/posts") \o " No")
  /\ log[Len(log)] = LogRec("plain", "Operation cancelled.")
  /\ Exists(fs, "src/posts")
  /\ Exists(fs, "src/posts/posts.module.ts")

(***************************************************************************)
(* Properties of the workflow after a conflict, checked under Spec.        *)
(***************************************************************************)
\* the overwrite of the project directory was declined
ProjectDeclined == Logged(log, "prompt", OverwriteQuestion(".") \o " No")

\* C24 (as claimed): once the overwrite of the existing project directory is
\* declined, no later step of the workflow writes into the directory or runs
\* an external command.
C24_Claim ==
  [][ProjectDeclined =>
       /\ fs' = fs
       /\ appModule' = appModule
       /\ deps' = deps
       /\ ~\E i \in 1..Len(Said(trace, trace')) :
             Said(trace, trace')[i] \in {"install", "database-install",
                                         "auth-install", "generate"}
       /\ ~\E i \in 1..Len(Said(log, log')) :
             StartsWith(Said(log, log')[i].msg, "Command failed: ")]_vars

(***************************************************************************)
(* Properties of raw names, checked under SpecRawNames.                    *)
(***************************************************************************)
\* C25 (as claimed): a raw name that fails the pattern is reported and
\* nothing is written, whether it was given as an option, listed among the
\* modules of the workflow or typed at the question.
C25_Claim ==
  (pc \in {"ran", "asking"} /\ ~ValidName(input.raw)) =>
    /\ fs = InitialFiles(input.source)
    /\ created = << >>
    /\ log # << >>
    /\ log[Len(log)].msg \in {ModuleNameMsg, ProjectNameMsg}

(***************************************************************************)
(* Properties of the auth unit in the workflow, checked under Spec.        *)
(***************************************************************************)
AuthServicePath == "src/auth/services/auth.service.ts"

\* the files of the auth unit that are in the project, with their texts
WrittenAuthFiles ==
  {f \in createAuthFiles("src/auth",
                         Exists(fs, "src/auth/strategies/jwt.strategy.ts")) :
     Exists(fs, f.path)}

\* the files of the user unit of the workflow that are in the project
WrittenUserFiles ==
  {f \in createModuleFiles("src/" \o getPlural("user"), getPlural("user"), TRUE,
                           Exists(fs, PrismaServicePath)) :
     Exists(fs, f.path)}

\* AddAuth has just written the auth unit
AuthAdded ==
  /\ pc = "auth-install"
  /\ trace[Len(trace)] = "auth"
  /\ Exists(fs, AuthServicePath)

\* C26 (as claimed): when the database strategy is in the project at the time
\* the auth unit is written, the service text of the auth unit is a text of
\* the strategy: its methods keep their records in the store of the strategy.
C26_Claim ==
  (AuthAdded /\ Exists(fs, PrismaServicePath)) =>
    \A f \in OfKind(WrittenAuthFiles, "service") :
      /\ f.store = "prisma"
      /\ Import("PrismaService", "../../prisma/prisma.service") \in f.imports

\* C28 (as claimed): after a workflow with auth that has written the user
\* unit and reports success, every import of the module file and of the
\* service file of the auth unit names a file that is in the project, and the
\* class it imports is the class that file exports; for the user unit these
\* are the path and the classes under which the workflow writes it.
C28_Claim ==
  (/\ pc = "done"
   /\ details.auth
   /\ Exists(fs, AuthServicePath)
   /\ OfKind(WrittenUserFiles, "module") # {}) =>
    \A f \in WrittenAuthFiles :
      f.kind \in {"module", "service"} =>
        \A imp \in f.imports :
          \E g \in WrittenAuthFiles \cup WrittenUserFiles :
            /\ g.path = ImportedPath(f.path, imp)
            /\ g.class = imp.name

(***************************************************************************)
(* The identifier test of the patch, checked under SpecCli.                *)
(***************************************************************************)
\* C27 (as claimed): a patch with import line I and identifier R of a text
\* that holds R but not I (R is part of a longer identifier, or belongs to
\* another unit) still adds I and the entry R.
C27_Claim ==
  (last.ran /\ Includes(last.pre, last.R) /\ ~Includes(last.pre, last.I)) =>
    /\ Includes(appModule, last.I)
    /\ last.R \in EntrySet(appModule)

(***************************************************************************)
(* The client generation step of the workflow, checked under Spec.         *)
(***************************************************************************)
PrismaAddedMsg == "Prisma database integration added successfully!"

\* C29 (as claimed): in a finished run whose db key resolves to the Prisma
\* strategy and whose database step added the integration, the generate step
\* has run, after every unit step and right before done; in a run without a
\* db key it has not run.
C29_Claim ==
  pc = "done" =>
    /\ (/\ getStrategy(details.database) = "Prisma"
        /\ Logged(log, "success", PrismaAddedMsg)) =>
         /\ Contains(trace, "generate")
         /\ \A i, j \in 1..Len(trace) :
              (trace[i] = "module" /\ trace[j] = "generate") => i < j
         /\ trace[Len(trace) - 1] = "generate"
    /\ details.database = "" => ~Contains(trace, "generate")

(***************************************************************************)
(* Commands outside a project, checked under SpecCommands.                 *)
(***************************************************************************)
\* the command that has just run is the module, auth or db command
UnitCommandRan == ops' = ops + 1 /\ last'.op \in {"module", "auth", "db"}

====
